---- MODULE Spec2Model ----
(***************************************************************************)
(* A model of the XAPIHub client (src/src/services/xapihub-client.ts): the *)
(* transport, the per-resource normalisation and the facade operations,    *)
(* and of the MCP server's tool dispatch around it (server.ts).            *)
(*                                                                         *)
(* JavaScript values are modelled as tagged records, so that `||`,         *)
(* Array.isArray, property access on null and destructuring defaults       *)
(* behave as they do in the source.                                        *)
(***************************************************************************)
EXTENDS Integers, Sequences, FiniteSets, TLC

VARIABLES
    config,     \* XAPIHubClient.config: base URL and bearer token
    pc,         \* per call: "idle", "awaiting" (suspended at the await), "done",
                \* "thrown" (the tool handler threw before calling the facade)
    op,         \* per call: the facade operation invoked
    params,     \* per call: the argument object of the invocation
    requests,   \* per call: the HTTP requests issued so far
    response,   \* per call: how the awaited request settled
    result,     \* per call: how the facade operation completed
    log,        \* per call: entries written with console.error
    tool,       \* per call: the tools/call request being served, if any
    reply,      \* per call: how the tools/call handler completed
    process     \* the server process: its environment, whether main has run,
                \* and how it ended if it has exited

vars == <<config, pc, op, params, requests, response, result, log, tool, reply, process>>

----------------------------------------------------------------------------
(* Bounds of the model *)

MaxLen == 2     \* longest raw array a backend response carries

MaxCalls == 2   \* tool calls served at the same time in the concurrent runs

----------------------------------------------------------------------------
(* JavaScript / JSON values *)

Undefined == [t |-> "undefined"]
Null      == [t |-> "null"]
Str(s)    == [t |-> "string", v |-> s]
Num(n)    == [t |-> "number", v |-> n]
Bool(b)   == [t |-> "boolean", v |-> b]
Arr(s)    == [t |-> "array", v |-> s]
Obj(f)    == [t |-> "object", v |-> f]

EmptyObj == Obj(<<>>)

IsNullish(v) == v.t \in {"undefined", "null"}

IsArray(v) == v.t = "array"

\* ToBoolean: undefined, null, "", 0 and false are falsy; objects and arrays
\* (the empty array too) are truthy.
Truthy(v) ==
    CASE v.t = "undefined" -> FALSE
      [] v.t = "null"      -> FALSE
      [] v.t = "string"    -> v.v # ""
      [] v.t = "number"    -> v.v # 0
      [] v.t = "boolean"   -> v.v
      [] OTHER             -> TRUE

\* a || b
Or(a, b) == IF Truthy(a) THEN a ELSE b

\* v.k for a v that is neither null nor undefined: a missing property, and any
\* property of a scalar or of an array, reads as undefined.
Get(v, k) == IF v.t = "object" /\ k \in DOMAIN v.v THEN v.v[k] ELSE Undefined

\* v?.k
OptGet(v, k) == IF IsNullish(v) THEN Undefined ELSE Get(v, k)

\* A destructuring default `k = d`: applies when the property is undefined only.
Default(v, d) == IF v = Undefined THEN d ELSE v

\* Template-literal interpolation `${x}` of a scalar, which is x.toString()
\* for a string, a number and a boolean.
JsToString(v) ==
    CASE v.t = "string"  -> v.v
      [] v.t = "number"  -> ToString(v.v)
      [] v.t = "boolean" -> IF v.v THEN "true" ELSE "false"
      [] v.t = "undefined" -> "undefined"
      [] v.t = "null"    -> "null"

\* An object literal whose optional entries are left out: drops the keys of r
\* bound to undefined.
Omit(r) == Obj([k \in {j \in DOMAIN r : r[j] # Undefined} |-> r[k]])

\* All sequences over S of length at most n.
SeqsUpTo(S, n) == UNION {[1..k -> S] : k \in 0..n}

----------------------------------------------------------------------------
(* Completions of a piece of code: a value, or a thrown exception *)

Return(v) == [kind |-> "return", value |-> v]
Throw(e)  == [kind |-> "throw", value |-> e]

\* The TypeError of a property read on null or undefined.
TypeError == Obj([name |-> Str("TypeError"),
                  message |-> Str("Cannot read properties of null")])

----------------------------------------------------------------------------
(* Transport: the axios instance of the constructor *)

Timeout == 30000    \* milliseconds

Tokens == {"tok-A", "tok-B"}

Configs == {[baseUrl |-> "https://api-dev.xapihub.io", token |-> t] : t \in Tokens}

\* The headers every request of the instance starts from. Header names are
\* case-insensitive and are kept in lower case.
DefaultHeaders(cfg) ==
    [authorization |-> "Bearer " \o cfg.token] @@ ("content-type" :> "application/json")

\* Per-request headers, when given, used in place of the instance's headers.
OwnHeadersOnly(defaults, own) == IF DOMAIN own = {} THEN defaults ELSE own

\* Per-request headers replace the instance's headers of the same name.
MergeHeaders(defaults, own) ==
    [k \in DOMAIN defaults \cup DOMAIN own |->
        IF k \in DOMAIN own THEN own[k] ELSE defaults[k]]

\* The headers searchProjects, getCatalogues and getApiDetails pass themselves.
BrowserHeaders ==
    [accept |-> "text/html, application/json, text/plain, */*",
     origin |-> "https://dev.xapihub.io",
     priority |-> "u=1, i",
     referer |-> "https://dev.xapihub.io/"]
    @@ ("accept-language" :> "en-US,en;q=0.9")
    @@ ("sec-ch-ua" :> "\"Not;A=Brand\";v=\"99\", \"Google Chrome\";v=\"139\", \"Chromium\";v=\"139\"")
    @@ ("sec-ch-ua-mobile" :> "?0")
    @@ ("sec-ch-ua-platform" :> "\"Windows\"")
    @@ ("sec-fetch-dest" :> "empty")
    @@ ("sec-fetch-mode" :> "cors")
    @@ ("sec-fetch-site" :> "same-site")
    @@ ("user-agent" :> "Mozilla/5.0 (Windows NT 10.0; Win64; x64) AppleWebKit/537.36 (KHTML, like Gecko) Chrome/139.0.0.0 Safari/537.36")

NoHeaders == <<>>

\* A request of the instance. `url` stands for the string `path?query`; the
\* query is kept as the entries of the URLSearchParams it was printed from.
Request(cfg, method, path, query, body, own) ==
    [method  |-> method,
     baseURL |-> cfg.baseUrl,
     url     |-> [path |-> path, query |-> query],
     data    |-> body,
     headers |-> MergeHeaders(DefaultHeaders(cfg), own),
     timeout |-> Timeout]

\* How the awaited request settles.
Pending        == [kind |-> "pending"]
Resolved(data) == [kind |-> "resolved", data |-> data]
Rejected(err)  == [kind |-> "rejected", error |-> err]

Statuses == {401, 404, 500}

StatusText(s) ==
    CASE s = 401 -> "Unauthorized"
      [] s = 404 -> "Not Found"
      [] s = 500 -> "Internal Server Error"

ErrorBodies == {Str(""), Obj([message |-> Str("denied")])}

\* The AxiosError of a response whose status is outside 2xx.
StatusError(req, s, body) ==
    Obj([name     |-> Str("AxiosError"),
         message  |-> Str("Request failed with status code " \o ToString(s)),
         config   |-> Obj([url |-> req.url]),
         response |-> Obj([status |-> Num(s), statusText |-> Str(StatusText(s)),
                           data |-> body])])

\* The AxiosError of a request that got no response.
NetworkError(req) ==
    Obj([name    |-> Str("AxiosError"),
         message |-> Str("Network Error"),
         code    |-> Str("ERR_NETWORK"),
         config  |-> Obj([url |-> req.url])])

\* The AxiosError of a request that outlived the instance's timeout.
TimeoutError(req) ==
    Obj([name    |-> Str("AxiosError"),
         message |-> Str("timeout of " \o ToString(req.timeout) \o "ms exceeded"),
         code    |-> Str("ECONNABORTED"),
         config  |-> Obj([url |-> req.url])])

\* console.error(label, payload): the entry written.
ConsoleError(label, payload) == [label |-> label, payload |-> payload]

\* An entry carrying the error's message alone.
InterceptorLogMessageOnly(error) ==
    ConsoleError("XAPIHub API Error:", [message |-> Get(error, "message")])

\* The response interceptor's error handler: the entry it logs. The error is
\* then rejected unchanged.
InterceptorLog(error) ==
    ConsoleError("XAPIHub API Error:",
    [status     |-> OptGet(Get(error, "response"), "status"),
     statusText |-> OptGet(Get(error, "response"), "statusText"),
     data       |-> OptGet(Get(error, "response"), "data"),
     url        |-> OptGet(Get(error, "config"), "url")])

----------------------------------------------------------------------------
(* Result envelopes *)

\* A result claiming success without carrying its data.
SuccessWithoutData(data, message) ==
    Obj([success |-> Bool(TRUE), message |-> Str(message)])

Success(data, message) ==
    Obj([success |-> Bool(TRUE), data |-> data, message |-> Str(message)])

\* Failure with the status read from the error itself instead of from its
\* response.
FailureStatusOfError(what, error) ==
    Obj([success |-> Bool(FALSE),
         error   |-> Get(error, "message"),
         message |-> Str("Failed to " \o what \o ": " \o
                         JsToString(Or(Get(error, "status"), Str("Unknown error"))))])

\* The catch block of a facade operation: `what` is the operation's wording.
Failure(what, error) ==
    Obj([success |-> Bool(FALSE),
         error   |-> Get(error, "message"),
         message |-> Str("Failed to " \o what \o ": " \o
                         JsToString(Or(OptGet(Get(error, "response"), "status"),
                                       Str("Unknown error"))))])

\* The try block without its catch.
Uncaught(what, completion) == completion

\* try { ... } catch (error) { return Failure }: a throw inside the try block
\* (the rejected await included) becomes a returned Failure.
Caught(what, completion) ==
    IF completion.kind = "throw"
    THEN Return(Failure(what, completion.value))
    ELSE completion

\* `await request` inside the try block: the response's data, or the
\* rejection thrown.
Await(outcome) ==
    IF outcome.kind = "rejected" THEN Throw(outcome.error) ELSE Return(outcome.data)

\* array.map(f), given the completion of f on each element in turn: the first
\* throw ends the map, else the array of the values.
MapAll(each) ==
    LET bad == {i \in 1..Len(each) : each[i].kind = "throw"}
    IN  IF bad # {}
        THEN each[CHOOSE i \in bad : \A j \in bad : i <= j]
        ELSE Return(Arr([i \in 1..Len(each) |-> each[i].value]))

\* The chain without its initial empty array: the last branch reads the last
\* property of `keys` unguarded, and mapping over a non-array throws.
FirstArrayUnguarded(d, keys) ==
    IF IsArray(d) THEN Return(d.v)
    ELSE IF IsNullish(d) THEN Throw(TypeError)
    ELSE LET hits == {i \in 1..Len(keys) :
                        Truthy(Get(d, keys[i])) /\ IsArray(Get(d, keys[i]))}
         IN  IF hits = {} THEN Throw(TypeError)
             ELSE Return(Get(d, keys[CHOOSE i \in hits : \A j \in hits : i <= j]).v)

\* The chain `if (Array.isArray(d)) .. else if (d.k1 && Array.isArray(d.k1)) ..`:
\* the array itself, else the first property of `keys` holding an array, else
\* the empty array. Reading a property of null throws.
FirstArray(d, keys) ==
    IF IsArray(d) THEN Return(d.v)
    ELSE IF IsNullish(d) THEN Throw(TypeError)
    ELSE LET hits == {i \in 1..Len(keys) :
                        Truthy(Get(d, keys[i])) /\ IsArray(Get(d, keys[i]))}
         IN  IF hits = {} THEN Return(<<>>)
             ELSE Return(Get(d, keys[CHOOSE i \in hits : \A j \in hits : i <= j]).v)

----------------------------------------------------------------------------
(* getCurrentUser *)

getCurrentUserRequest(cfg) ==
    Request(cfg, "GET", "/platform/1.0.0/users/current-user", <<>>, Undefined, NoHeaders)

\* The user literal built from response.data.
mapUser(userData) ==
    IF IsNullish(userData) THEN Throw(TypeError)
    ELSE Return(Obj([id         |-> Or(Get(userData, "id"), Str("")),
                     username   |-> Or(Get(userData, "userName"), Str("")),
                     email      |-> Or(Get(userData, "emailAddress"), Str("")),
                     createdOn  |-> Get(userData, "createdOn"),
                     modifiedOn |-> Get(userData, "modifiedOn")]))

getCurrentUserBody(data) ==
    LET user == mapUser(data)
    IN  IF user.kind = "throw" THEN user
        ELSE Return(Success(user.value, "User details retrieved successfully"))

getCurrentUser(outcome) ==
    LET data == Await(outcome)
    IN  Caught("get current user", IF data.kind = "throw" THEN data ELSE getCurrentUserBody(data.value))

----------------------------------------------------------------------------
(* testConnection *)

\* `inner` is the completion of the getCurrentUser call it awaits.
testConnection(inner) ==
    IF inner.kind = "throw"
    THEN Return(Obj([success |-> Bool(FALSE), data |-> Bool(FALSE),
                     error   |-> Get(inner.value, "message"),
                     message |-> Str("Failed to connect to XAPIHub API")]))
    ELSE Return(Success(Bool(TRUE), "Successfully connected to XAPIHub API"))

----------------------------------------------------------------------------
(* getAccessedOrganizations *)

getAccessedOrganizationsRequest(cfg) ==
    Request(cfg, "GET", "/platform/1.0.0/organizations/recent-accessed-organizations",
            <<>>, Undefined, NoHeaders)

organizationsKeys == <<"recentAccessedOrganizationResourceList", "organizations", "data">>

mapOrganization(org) ==
    IF IsNullish(org) THEN Throw(TypeError)
    ELSE Return(Obj([id          |-> Or(Get(org, "id"), Str("")),
                     name        |-> Or(Or(Get(org, "name"), Get(org, "displayName")), Str("")),
                     description |-> Or(Get(org, "description"), Str("")),
                     organizationVisibility |->
                         Or(Or(Get(org, "visibility"), Get(org, "organizationVisibility")),
                            Str("PRIVATE")),
                     createdOn   |-> Or(Get(org, "createdOn"), Str("")),
                     modifiedOn  |-> Or(Get(org, "modifiedOn"), Str(""))]))

getAccessedOrganizationsBody(data) ==
    LET organizations == FirstArray(data, organizationsKeys)
        mapped == MapAll([i \in 1..Len(organizations.value) |->
                             mapOrganization(organizations.value[i])])
    IN  IF organizations.kind = "throw" THEN organizations
        ELSE IF mapped.kind = "throw" THEN mapped
        ELSE Return(Success(mapped.value, "Accessed organizations retrieved successfully"))

getAccessedOrganizations(outcome) ==
    LET data == Await(outcome)
    IN  Caught("get accessed organizations", IF data.kind = "throw" THEN data ELSE getAccessedOrganizationsBody(data.value))

----------------------------------------------------------------------------
(* getRecentAccessedProjects *)

getRecentAccessedProjectsRequest(cfg, organizationId) ==
    Request(cfg, "GET",
            "/project/1.0.0/organizations/" \o JsToString(organizationId)
                \o "/projects/recent-accessed-project",
            <<>>, Undefined, NoHeaders)

projectsKeys == <<"recentAccessedProjectResourceList", "projects", "data", "content">>

mapProject(project) ==
    IF IsNullish(project) THEN Throw(TypeError)
    ELSE Return(Obj([id          |-> Or(Get(project, "id"), Str("")),
                     name        |-> Or(Or(Or(Get(project, "name"), Get(project, "displayName")),
                                           Get(project, "projectName")), Str("")),
                     description |-> Or(Get(project, "description"), Str("")),
                     enableKanbanBoard |-> Or(Get(project, "enableKanbanBoard"), Bool(FALSE))]))

getRecentAccessedProjectsBody(data) ==
    LET projects == FirstArray(data, projectsKeys)
        mapped == MapAll([i \in 1..Len(projects.value) |->
                             mapProject(projects.value[i])])
    IN  IF projects.kind = "throw" THEN projects
        ELSE IF mapped.kind = "throw" THEN mapped
        ELSE Return(Success(mapped.value, "Recent accessed projects retrieved successfully"))

getRecentAccessedProjects(outcome) ==
    LET data == Await(outcome)
    IN  Caught("get recent accessed projects", IF data.kind = "throw" THEN data ELSE getRecentAccessedProjectsBody(data.value))

----------------------------------------------------------------------------
(* getCatalogues *)

getCataloguesRequest(cfg, organizationId, projectId) ==
    Request(cfg, "GET",
            "/api-design/1.0.0/organizations/" \o JsToString(organizationId)
                \o "/projects/" \o JsToString(projectId) \o "/catalogues",
            <<>>, Undefined, BrowserHeaders)

cataloguesKeys == <<"catalogues", "data", "content">>

mapCatalogue(catalogue) ==
    IF IsNullish(catalogue) THEN Throw(TypeError)
    ELSE Return(Obj([id          |-> Or(Get(catalogue, "id"), Str("")),
                     name        |-> Or(Or(Get(catalogue, "name"), Get(catalogue, "displayName")),
                                        Str("")),
                     description |-> Or(Get(catalogue, "description"), Str("")),
                     version     |-> Or(Get(catalogue, "version"), Str("")),
                     status      |-> Or(Get(catalogue, "status"), Str("")),
                     createdOn   |-> Or(Get(catalogue, "createdOn"), Str("")),
                     modifiedOn  |-> Or(Get(catalogue, "modifiedOn"), Str("")),
                     rootCollectionId |-> Or(Get(catalogue, "rootCollectionId"), Str(""))]))

getCataloguesBody(data) ==
    LET catalogues == FirstArray(data, cataloguesKeys)
        mapped == MapAll([i \in 1..Len(catalogues.value) |->
                             mapCatalogue(catalogues.value[i])])
    IN  IF catalogues.kind = "throw" THEN catalogues
        ELSE IF mapped.kind = "throw" THEN mapped
        ELSE Return(Success(mapped.value, "Catalogues retrieved successfully"))

getCatalogues(outcome) ==
    LET data == Await(outcome)
    IN  Caught("get catalogues", IF data.kind = "throw" THEN data ELSE getCataloguesBody(data.value))

----------------------------------------------------------------------------
(* Page envelopes: the `content` branch, the bare-array branch and the initial
   values of searchProjects and getApiDetails *)

\* The content branch with `|| 0` for each of the four numbers.
PaginateZeroDefaults(responseData, size, page) ==
    IF IsNullish(responseData) THEN Throw(TypeError)
    ELSE IF Truthy(Get(responseData, "content")) /\ IsArray(Get(responseData, "content"))
    THEN Return([items         |-> Get(responseData, "content").v,
                 totalElements |-> Or(Get(responseData, "totalElements"), Num(0)),
                 totalPages    |-> Or(Get(responseData, "totalPages"), Num(0)),
                 size          |-> Or(Get(responseData, "size"), Num(0)),
                 number        |-> Or(Get(responseData, "number"), Num(0)),
                 first         |-> IF Get(responseData, "first") # Undefined
                                   THEN Get(responseData, "first") ELSE Bool(TRUE),
                 last          |-> IF Get(responseData, "last") # Undefined
                                   THEN Get(responseData, "last") ELSE Bool(TRUE)])
    ELSE IF IsArray(responseData)
    THEN Return([items         |-> responseData.v,
                 totalElements |-> Num(Len(responseData.v)),
                 totalPages    |-> Num(1),
                 size          |-> size,
                 number        |-> page,
                 first         |-> Bool(TRUE),
                 last          |-> Bool(TRUE)])
    ELSE Return([items         |-> <<>>,
                 totalElements |-> Num(0),
                 totalPages    |-> Num(0),
                 size          |-> size,
                 number        |-> page,
                 first         |-> Bool(TRUE),
                 last          |-> Bool(TRUE)])

Paginate(responseData, size, page) ==
    IF IsNullish(responseData) THEN Throw(TypeError)
    ELSE IF Truthy(Get(responseData, "content")) /\ IsArray(Get(responseData, "content"))
    THEN Return([items         |-> Get(responseData, "content").v,
                 totalElements |-> Or(Get(responseData, "totalElements"), Num(0)),
                 totalPages    |-> Or(Get(responseData, "totalPages"), Num(0)),
                 size          |-> Or(Get(responseData, "size"), size),
                 number        |-> Or(Get(responseData, "number"), page),
                 first         |-> IF Get(responseData, "first") # Undefined
                                   THEN Get(responseData, "first") ELSE Bool(TRUE),
                 last          |-> IF Get(responseData, "last") # Undefined
                                   THEN Get(responseData, "last") ELSE Bool(TRUE)])
    ELSE IF IsArray(responseData)
    THEN Return([items         |-> responseData.v,
                 totalElements |-> Num(Len(responseData.v)),
                 totalPages    |-> Num(1),
                 size          |-> size,
                 number        |-> page,
                 first         |-> Bool(TRUE),
                 last          |-> Bool(TRUE)])
    ELSE Return([items         |-> <<>>,
                 totalElements |-> Num(0),
                 totalPages    |-> Num(0),
                 size          |-> size,
                 number        |-> page,
                 first         |-> Bool(TRUE),
                 last          |-> Bool(TRUE)])

\* The ProjectSearchResponse / APIFilterResponse literal.
PageResponse(content, p) ==
    Obj([content       |-> content,
         totalElements |-> p.totalElements,
         totalPages    |-> p.totalPages,
         size          |-> p.size,
         number        |-> p.number,
         first         |-> p.first,
         last          |-> p.last])

----------------------------------------------------------------------------
(* searchProjects *)

\* The destructuring with the page size default of getApiDetails.
searchProjectsParamsSize8(p) ==
    [organizationId |-> Get(p, "organizationId"),
     searchString   |-> Default(Get(p, "searchString"), Str("")),
     isAssign       |-> Default(Get(p, "isAssign"), Bool(TRUE)),
     page           |-> Default(Get(p, "page"), Num(0)),
     size           |-> Default(Get(p, "size"), Num(8)),
     isDefault      |-> Default(Get(p, "isDefault"), Bool(FALSE)),
     sort           |-> Default(Get(p, "sort"), Str("name,asc"))]

\* The destructuring of `params` with its defaults.
searchProjectsParams(p) ==
    [organizationId |-> Get(p, "organizationId"),
     searchString   |-> Default(Get(p, "searchString"), Str("")),
     isAssign       |-> Default(Get(p, "isAssign"), Bool(TRUE)),
     page           |-> Default(Get(p, "page"), Num(0)),
     size           |-> Default(Get(p, "size"), Num(12)),
     isDefault      |-> Default(Get(p, "isDefault"), Bool(FALSE)),
     sort           |-> Default(Get(p, "sort"), Str("name,asc"))]

searchProjectsRequest(cfg, p) ==
    LET a == searchProjectsParams(p)
    IN  Request(cfg, "POST",
                "/project/1.0.0/organizations/" \o JsToString(a.organizationId)
                    \o "/projects/search",
                << <<"isAssign", JsToString(a.isAssign)>>,
                   <<"page", JsToString(a.page)>>,
                   <<"size", JsToString(a.size)>>,
                   <<"isDefault", JsToString(a.isDefault)>>,
                   <<"sort", JsToString(a.sort)>> >>,
                Obj([searchString |-> a.searchString]),
                ("content-type" :> "application/json") @@ BrowserHeaders)

searchProjectsBody(p, data) ==
    LET a == searchProjectsParams(p)
        paged == Paginate(data, a.size, a.page)
        mapped == MapAll([i \in 1..Len(paged.value.items) |->
                             mapProject(paged.value.items[i])])
    IN  IF paged.kind = "throw" THEN paged
        ELSE IF mapped.kind = "throw" THEN mapped
        ELSE Return(Success(PageResponse(mapped.value, paged.value),
                            "Project search completed successfully"))

searchProjects(p, outcome) ==
    LET data == Await(outcome)
    IN  Caught("search projects", IF data.kind = "throw" THEN data ELSE searchProjectsBody(p, data.value))

----------------------------------------------------------------------------
(* getApiDetails *)

getApiDetailsParams(p) ==
    [organizationId |-> Get(p, "organizationId"),
     projectId      |-> Get(p, "projectId"),
     catalogueId    |-> Get(p, "catalogueId"),
     collectionId   |-> Get(p, "collectionId"),
     creators       |-> Default(Get(p, "creators"), Arr(<<>>)),
     collections    |-> Default(Get(p, "collections"), Arr(<<>>)),
     projects       |-> Default(Get(p, "projects"), Arr(<<>>)),
     page           |-> Default(Get(p, "page"), Num(0)),
     size           |-> Default(Get(p, "size"), Num(8))]

\* The request with the catalogue and collection ids in each other's place.
getApiDetailsRequestSwapped(cfg, p) ==
    LET a == getApiDetailsParams(p)
    IN  Request(cfg, "POST",
                "/global-search-read/1.0.0/organizations/" \o JsToString(a.organizationId)
                    \o "/projects/" \o JsToString(a.projectId)
                    \o "/catalogues/" \o JsToString(a.collectionId)
                    \o "/collections/" \o JsToString(a.catalogueId)
                    \o "/apis/filter",
                << <<"page", JsToString(a.page)>>,
                   <<"size", JsToString(a.size)>> >>,
                Obj([creators    |-> a.creators,
                     collections |-> a.collections,
                     projects    |-> a.projects]),
                ("content-type" :> "application/json") @@ BrowserHeaders)

getApiDetailsRequest(cfg, p) ==
    LET a == getApiDetailsParams(p)
    IN  Request(cfg, "POST",
                "/global-search-read/1.0.0/organizations/" \o JsToString(a.organizationId)
                    \o "/projects/" \o JsToString(a.projectId)
                    \o "/catalogues/" \o JsToString(a.catalogueId)
                    \o "/collections/" \o JsToString(a.collectionId)
                    \o "/apis/filter",
                << <<"page", JsToString(a.page)>>,
                   <<"size", JsToString(a.size)>> >>,
                Obj([creators    |-> a.creators,
                     collections |-> a.collections,
                     projects    |-> a.projects]),
                ("content-type" :> "application/json") @@ BrowserHeaders)

mapApi(api) ==
    IF IsNullish(api) THEN Throw(TypeError)
    ELSE Return(Obj([id          |-> Or(Get(api, "id"), Str("")),
                     name        |-> Or(Or(Or(Get(api, "name"), Get(api, "displayName")),
                                           Get(api, "apiName")), Str("")),
                     description |-> Or(Get(api, "description"), Str("")),
                     version     |-> Or(Get(api, "version"), Str("")),
                     status      |-> Or(Get(api, "status"), Str("")),
                     createdOn   |-> Or(Get(api, "createdOn"), Str("")),
                     modifiedOn  |-> Or(Get(api, "modifiedOn"), Str("")),
                     createdBy   |-> Or(Get(api, "createdBy"), Str("")),
                     modifiedBy  |-> Or(Get(api, "modifiedBy"), Str("")),
                     apiType     |-> Or(Or(Get(api, "apiType"), Get(api, "type")), Str("")),
                     visibility  |-> Or(Get(api, "visibility"), Str(""))]))

getApiDetailsBody(p, data) ==
    LET a == getApiDetailsParams(p)
        paged == Paginate(data, a.size, a.page)
        mapped == MapAll([i \in 1..Len(paged.value.items) |->
                             mapApi(paged.value.items[i])])
    IN  IF paged.kind = "throw" THEN paged
        ELSE IF mapped.kind = "throw" THEN mapped
        ELSE Return(Success(PageResponse(mapped.value, paged.value),
                            "API details retrieved successfully"))

getApiDetails(p, outcome) ==
    LET data == Await(outcome)
    IN  Caught("get API details", IF data.kind = "throw" THEN data ELSE getApiDetailsBody(p, data.value))

----------------------------------------------------------------------------
(* The dispatch shell: the tools/call handler of the MCP server and the
   handler of each tool *)

\* new McpError(code, message); the code is kept by its ErrorCode name and the
\* message as it is passed (the class itself belongs to the MCP SDK).
McpError(code, message) ==
    Obj([name |-> Str("McpError"), code |-> Str(code), message |-> Str(message)])

\* JSON.stringify, kept as the JSON value the text denotes: a property bound
\* to undefined is left out, an undefined array element is printed as null.
RECURSIVE JsonStringify(_)
JsonStringify(v) ==
    CASE v.t = "object" ->
            Obj([k \in {j \in DOMAIN v.v : v.v[j] # Undefined} |-> JsonStringify(v.v[k])])
      [] v.t = "array" ->
            Arr([i \in 1..Len(v.v) |->
                    IF v.v[i] = Undefined THEN Null ELSE JsonStringify(v.v[i])])
      [] OTHER -> v

\* What a handler returns: one text item holding the payload's JSON.
ToolText(payload) ==
    Obj([content |-> Arr(<< Obj([type |-> Str("text"),
                                 text |-> JsonStringify(payload)]) >>)])

\* The object literal { k: record.k, ... } over the keys given.
Pick(record, keys) == Obj([k \in keys |-> Get(record, k)])

\* items.map(item => ({ k: item.k, ... }))
PickAll(items, keys) == Arr([i \in 1..Len(items.v) |-> Pick(items.v[i], keys)])

\* The else branch carrying the error alone.
ToolFailureBare(res, fallback, extra) ==
    ToolText(Obj([success |-> Bool(FALSE),
                  error   |-> Or(Get(res, "error"), Str(fallback))]))

\* The else branch of a handler: `extra` holds the request parameters the
\* handler adds.
ToolFailure(res, fallback, extra) ==
    ToolText(Obj([success |-> Bool(FALSE),
                  error   |-> Or(Get(res, "error"), Str(fallback)),
                  message |-> Get(res, "message")] @@ extra))

\* result.success && result.data, `res` being the facade's result
Succeeded(res) == Truthy(Get(res, "success")) /\ Truthy(Get(res, "data"))

handleGetCurrentUser(res) ==
    IF Succeeded(res)
    THEN ToolText(Obj([success |-> Bool(TRUE),
                       message |-> Str("Current user details retrieved successfully"),
                       user    |-> Pick(Get(res, "data"),
                                        {"id", "username", "email", "createdOn",
                                         "modifiedOn"})]))
    ELSE ToolFailure(res, "Failed to retrieve user details", <<>>)

\* The rendering with the result's own key: `data` instead of `connected`.
handleTestConnectionData(res) ==
    ToolText(Pick(res, {"success", "data", "message", "error"}))

handleTestConnection(res) ==
    ToolText(Obj([success   |-> Get(res, "success"),
                  connected |-> Get(res, "data"),
                  message   |-> Get(res, "message"),
                  error     |-> Get(res, "error")]))

handleGetAccessedOrganizations(res) ==
    IF Succeeded(res)
    THEN ToolText(Obj([success |-> Bool(TRUE),
                       message |-> Str("Accessed organizations retrieved successfully"),
                       organizations |->
                           PickAll(Get(res, "data"),
                                   {"id", "name", "description", "organizationVisibility",
                                    "createdOn", "modifiedOn"}),
                       count   |-> Num(Len(Get(res, "data").v))]))
    ELSE ToolFailure(res, "Failed to retrieve accessed organizations", <<>>)

\* The guard of handleGetRecentAccessedProjects and the argument it passes on.
handleGetRecentAccessedProjectsArgs(args) ==
    IF ~Truthy(args) \/ ~Truthy(Get(args, "organizationId"))
    THEN Throw(McpError("InvalidParams", "organizationId parameter is required"))
    ELSE Return(Obj([organizationId |-> Get(args, "organizationId")]))

handleGetRecentAccessedProjects(args, res) ==
    IF Succeeded(res)
    THEN ToolText(Obj([success |-> Bool(TRUE),
                       message |-> Str("Recent accessed projects retrieved successfully"),
                       organizationId |-> Get(args, "organizationId"),
                       projects |->
                           PickAll(Get(res, "data"),
                                   {"id", "name", "description", "enableKanbanBoard"}),
                       count   |-> Num(Len(Get(res, "data").v))]))
    ELSE ToolFailure(res, "Failed to retrieve recent accessed projects",
                     [organizationId |-> Get(args, "organizationId")])

\* The guard of handleSearchProjects and its searchParams literal.
handleSearchProjectsArgs(args) ==
    IF ~Truthy(args) \/ ~Truthy(Get(args, "organizationId"))
    THEN Throw(McpError("InvalidParams", "organizationId parameter is required"))
    ELSE Return(Obj([organizationId |-> Get(args, "organizationId"),
                     searchString   |-> Or(Get(args, "searchString"), Str("")),
                     isAssign       |-> Default(Get(args, "isAssign"), Bool(TRUE)),
                     page           |-> Default(Get(args, "page"), Num(0)),
                     size           |-> Default(Get(args, "size"), Num(12)),
                     isDefault      |-> Default(Get(args, "isDefault"), Bool(FALSE)),
                     sort           |-> Or(Get(args, "sort"), Str("name,asc"))]))

\* The pagination literal of the two page handlers.
Pagination(data) ==
    Pick(data, {"totalElements", "totalPages", "size", "number", "first", "last"})

handleSearchProjects(searchParams, res) ==
    IF Succeeded(res)
    THEN ToolText(Obj([success |-> Bool(TRUE),
                       message |-> Str("Project search completed successfully"),
                       searchParams |-> searchParams,
                       pagination |-> Pagination(Get(res, "data")),
                       projects |->
                           PickAll(Get(Get(res, "data"), "content"),
                                   {"id", "name", "description", "enableKanbanBoard"}),
                       count   |-> Num(Len(Get(Get(res, "data"), "content").v))]))
    ELSE ToolFailure(res, "Failed to search projects", [searchParams |-> searchParams])

\* The guard checking organizationId alone.
handleGetCataloguesArgsOrganizationOnly(args) ==
    IF ~Truthy(args) \/ ~Truthy(Get(args, "organizationId"))
    THEN Throw(McpError("InvalidParams",
                        "Both organizationId and projectId parameters are required"))
    ELSE Return(Obj([organizationId |-> Get(args, "organizationId"),
                     projectId      |-> Get(args, "projectId")]))

\* The guard of handleGetCatalogues and the arguments it passes on.
handleGetCataloguesArgs(args) ==
    IF ~Truthy(args) \/ ~Truthy(Get(args, "organizationId"))
                     \/ ~Truthy(Get(args, "projectId"))
    THEN Throw(McpError("InvalidParams",
                        "Both organizationId and projectId parameters are required"))
    ELSE Return(Obj([organizationId |-> Get(args, "organizationId"),
                     projectId      |-> Get(args, "projectId")]))

handleGetCatalogues(args, res) ==
    IF Succeeded(res)
    THEN ToolText(Obj([success |-> Bool(TRUE),
                       message |-> Str("Catalogues retrieved successfully"),
                       organizationId |-> Get(args, "organizationId"),
                       projectId |-> Get(args, "projectId"),
                       catalogues |->
                           PickAll(Get(res, "data"),
                                   {"id", "name", "description", "version", "status",
                                    "createdOn", "modifiedOn", "rootCollectionId"}),
                       count   |-> Num(Len(Get(res, "data").v))]))
    ELSE ToolFailure(res, "Failed to retrieve catalogues",
                     [organizationId |-> Get(args, "organizationId"),
                      projectId      |-> Get(args, "projectId")])

\* The guard of handleGetApiDetails and its apiFilterParams literal.
handleGetApiDetailsArgs(args) ==
    IF ~Truthy(args) \/ ~Truthy(Get(args, "organizationId"))
                     \/ ~Truthy(Get(args, "projectId"))
                     \/ ~Truthy(Get(args, "catalogueId"))
                     \/ ~Truthy(Get(args, "collectionId"))
    THEN Throw(McpError("InvalidParams",
                        "organizationId, projectId, catalogueId, and collectionId parameters are required"))
    ELSE Return(Obj([organizationId |-> Get(args, "organizationId"),
                     projectId      |-> Get(args, "projectId"),
                     catalogueId    |-> Get(args, "catalogueId"),
                     collectionId   |-> Get(args, "collectionId"),
                     creators       |-> Or(Get(args, "creators"), Arr(<<>>)),
                     collections    |-> Or(Get(args, "collections"), Arr(<<>>)),
                     projects       |-> Or(Get(args, "projects"), Arr(<<>>)),
                     page           |-> Default(Get(args, "page"), Num(0)),
                     size           |-> Default(Get(args, "size"), Num(8))]))

handleGetApiDetails(apiFilterParams, res) ==
    IF Succeeded(res)
    THEN ToolText(Obj([success |-> Bool(TRUE),
                       message |-> Str("API details retrieved successfully"),
                       filterParams |-> apiFilterParams,
                       pagination |-> Pagination(Get(res, "data")),
                       apis    |->
                           PickAll(Get(Get(res, "data"), "content"),
                                   {"id", "name", "description", "version", "status"}),
                       count   |-> Num(Len(Get(Get(res, "data"), "content").v))]))
    ELSE ToolFailure(res, "Failed to retrieve API details",
                     [filterParams |-> apiFilterParams])

ToolNames == {"get_current_user", "test_xapihub_connection", "get_accessed_organizations",
              "get_recent_accessed_projects", "search_projects", "get_catalogues",
              "get_api_details"}

\* The facade operation the handler of a tool calls.
Facade(name) ==
    CASE name = "get_current_user"             -> "getCurrentUser"
      [] name = "test_xapihub_connection"      -> "testConnection"
      [] name = "get_accessed_organizations"   -> "getAccessedOrganizations"
      [] name = "get_recent_accessed_projects" -> "getRecentAccessedProjects"
      [] name = "search_projects"              -> "searchProjects"
      [] name = "get_catalogues"               -> "getCatalogues"
      [] name = "get_api_details"              -> "getApiDetails"

\* The switch of the tools/call handler up to the handler's facade call: the
\* arguments the facade is called with, or what is thrown before any call.
Dispatched(name, args) ==
    CASE name = "get_recent_accessed_projects" -> handleGetRecentAccessedProjectsArgs(args)
      [] name = "search_projects"              -> handleSearchProjectsArgs(args)
      [] name = "get_catalogues"               -> handleGetCataloguesArgs(args)
      [] name = "get_api_details"              -> handleGetApiDetailsArgs(args)
      [] name \in ToolNames                    -> Return(Undefined)
      [] OTHER -> Throw(McpError("MethodNotFound", "Unknown tool: " \o name))

\* The handler from the facade's completion to its own.
Handled(name, args, passed, completion) ==
    IF completion.kind = "throw" THEN completion
    ELSE LET res == completion.value
         IN  Return(CASE name = "get_current_user" -> handleGetCurrentUser(res)
                      [] name = "test_xapihub_connection" -> handleTestConnection(res)
                      [] name = "get_accessed_organizations" ->
                            handleGetAccessedOrganizations(res)
                      [] name = "get_recent_accessed_projects" ->
                            handleGetRecentAccessedProjects(args, res)
                      [] name = "search_projects" -> handleSearchProjects(passed, res)
                      [] name = "get_catalogues" -> handleGetCatalogues(args, res)
                      [] name = "get_api_details" -> handleGetApiDetails(passed, res))

\* The catch of the tools/call handler: whatever is thrown inside the try
\* block is thrown again as an InternalError McpError.
CallToolCatch(completion) ==
    IF completion.kind = "throw"
    THEN Throw(McpError("InternalError",
                        "Tool execution failed: " \o Get(completion.value, "message").v))
    ELSE completion

\* The request a facade operation issues for its arguments.
RequestOf(cfg, o, p) ==
    CASE o = "getCurrentUser"            -> getCurrentUserRequest(cfg)
      [] o = "testConnection"            -> getCurrentUserRequest(cfg)
      [] o = "getAccessedOrganizations"  -> getAccessedOrganizationsRequest(cfg)
      [] o = "getRecentAccessedProjects" ->
            getRecentAccessedProjectsRequest(cfg, Get(p, "organizationId"))
      [] o = "searchProjects"            -> searchProjectsRequest(cfg, p)
      [] o = "getCatalogues"             ->
            getCataloguesRequest(cfg, Get(p, "organizationId"), Get(p, "projectId"))
      [] o = "getApiDetails"             -> getApiDetailsRequest(cfg, p)

----------------------------------------------------------------------------
(* Inputs: what callers pass and what the backend answers *)

Calls == {1}

Operations == {"getCurrentUser", "testConnection", "getAccessedOrganizations",
               "getRecentAccessedProjects", "searchProjects", "getCatalogues",
               "getApiDetails"}

OrgIds        == {Str("org1"), Str("org2")}
ProjectIds    == {Str("prj1")}
CatalogueIds  == {Str("cat1")}
CollectionIds == {Str("col1")}

\* 2xx payloads that are no envelope of any operation.
OddPayloads ==
    {Null, EmptyObj, Str(""), Str("oops"), Num(0), Num(5), Bool(TRUE),
     Obj([foo |-> Str("bar")])}

UserPayloads ==
    OddPayloads \cup {Arr(<<>>)} \cup
    {Omit([id |-> a, userName |-> b, username |-> c, emailAddress |-> d, email |-> e,
           createdOn |-> f, modifiedOn |-> g]) :
        a \in {Undefined, Str("u-1")},
        b \in {Undefined, Str(""), Str("alice")},
        c \in {Undefined, Str("alice2")},
        d \in {Undefined, Str("a@x.io")},
        e \in {Undefined, Str("b@x.io")},
        f \in {Undefined, Str("2024-01-01")},
        g \in {Undefined, Str("2024-02-02")}}

OrgElems ==
    {Null, Str("x"), EmptyObj,
     Obj([id |-> Str("o-1"), name |-> Str("Acme"), description |-> Str("first"),
          visibility |-> Str("PUBLIC"), createdOn |-> Str("2024-01-01"),
          modifiedOn |-> Str("2024-02-02")]),
     Obj([id |-> Str("o-2"), displayName |-> Str("Beta Display"),
          organizationVisibility |-> Str("INTERNAL")]),
     Obj([id |-> Str("o-3"), name |-> Str("Gamma"), description |-> Str(""),
          organizationVisibility |-> Str("PRIVATE"), createdOn |-> Str(""),
          modifiedOn |-> Str("")])}

ProjElems ==
    {Null, Str("x"), EmptyObj,
     Obj([id |-> Str("p-1"), name |-> Str("Payments"), description |-> Str("first"),
          enableKanbanBoard |-> Bool(TRUE)]),
     Obj([id |-> Str("p-2"), displayName |-> Str("Billing Display")]),
     Obj([projectName |-> Str("Ledger"), enableKanbanBoard |-> Bool(FALSE)])}

CatElems ==
    {Null, EmptyObj,
     Obj([id |-> Str("c-1"), name |-> Str("Public APIs"), description |-> Str("first"),
          version |-> Str("1.0.0"), status |-> Str("ACTIVE"),
          createdOn |-> Str("2024-01-01"), modifiedOn |-> Str("2024-02-02"),
          rootCollectionId |-> Str("col1")]),
     Obj([id |-> Str("c-2"), displayName |-> Str("Internal Display"),
          rootCollectionId |-> Str("col2")])}

\* Raw elements of the pages searchProjects is answered with.
ProjPageElems ==
    {Null, EmptyObj,
     Obj([id |-> Str("p-1"), name |-> Str("Payments"), description |-> Str("first"),
          enableKanbanBoard |-> Bool(TRUE)])}

ApiElems ==
    {Null,
     Obj([id |-> Str("a-1"), name |-> Str("Orders"), description |-> Str("first"),
          version |-> Str("2.1"), status |-> Str("PUBLISHED"),
          createdOn |-> Str("2024-01-01"), modifiedOn |-> Str("2024-02-02"),
          createdBy |-> Str("usr1"), modifiedBy |-> Str("usr2"),
          apiType |-> Str("REST"), visibility |-> Str("PUBLIC")]),
     Obj([id |-> Str("a-2"), apiName |-> Str("Refunds"), type |-> Str("GRAPHQL")])}

\* The property names a list envelope is tried with: those some operation
\* reads, and one nobody reads.
EnvelopeKeys ==
    {"recentAccessedOrganizationResourceList", "recentAccessedProjectResourceList",
     "organizations", "projects", "catalogues", "data", "content", "items"}

\* Values of a second envelope property next to an array-valued one.
Decoys(elems) == {Null, Str("n/a")} \cup {Arr(s) : s \in SeqsUpTo(elems, 1)}

ListPayloads(elems) ==
    OddPayloads
    \cup {Arr(s) : s \in SeqsUpTo(elems, MaxLen)}
    \cup {Obj(k :> Arr(s)) : k \in EnvelopeKeys, s \in SeqsUpTo(elems, MaxLen)}
    \cup UNION {{Obj((k1 :> x) @@ (k2 :> Arr(s))) :
                    k2 \in EnvelopeKeys \ {k1},
                    x \in Decoys(elems), s \in SeqsUpTo(elems, 1)} :
                 k1 \in {"data", "content"}}

\* The pagination fields of a page envelope; undefined stands for a field
\* the envelope leaves out.
PageMetas ==
    {[totalElements |-> Undefined, totalPages |-> Undefined, size |-> Undefined,
      number |-> Undefined, first |-> Undefined, last |-> Undefined],
     [totalElements |-> Num(40), totalPages |-> Num(4), size |-> Num(20),
      number |-> Num(3), first |-> Bool(FALSE), last |-> Bool(FALSE)],
     [totalElements |-> Num(0), totalPages |-> Num(0), size |-> Num(0),
      number |-> Num(0), first |-> Bool(TRUE), last |-> Bool(TRUE)],
     [totalElements |-> Num(7), totalPages |-> Undefined, size |-> Num(20),
      number |-> Undefined, first |-> Undefined, last |-> Bool(FALSE)],
     [totalElements |-> Undefined, totalPages |-> Num(2), size |-> Undefined,
      number |-> Num(1), first |-> Bool(FALSE), last |-> Undefined]}

PagePayloads(elems) ==
    OddPayloads
    \cup {Arr(s) : s \in SeqsUpTo(elems, MaxLen)}
    \cup {Omit([content |-> Arr(s)] @@ m) : m \in PageMetas, s \in SeqsUpTo(elems, MaxLen)}
    \cup {Omit([content |-> x] @@ m) : m \in PageMetas, x \in {Null, Str("n/a")}}

Payloads(o) ==
    CASE o = "getCurrentUser"            -> UserPayloads
      [] o = "testConnection"            -> UserPayloads
      [] o = "getAccessedOrganizations"  -> ListPayloads(OrgElems)
      [] o = "getRecentAccessedProjects" -> ListPayloads(ProjElems)
      [] o = "getCatalogues"             -> ListPayloads(CatElems)
      [] o = "searchProjects"            -> PagePayloads(ProjPageElems)
      [] o = "getApiDetails"             -> PagePayloads(ApiElems)

SearchArgs ==
    {Omit([organizationId |-> o, searchString |-> s, isAssign |-> a, page |-> p,
           size |-> z, isDefault |-> d, sort |-> r]) :
        o \in OrgIds,
        s \in {Undefined, Str("pay")},
        a \in {Undefined, Bool(FALSE)},
        p \in {Undefined, Num(2)},
        z \in {Undefined, Num(5)},
        d \in {Undefined, Bool(TRUE)},
        r \in {Undefined, Str("name,desc")}}

FilterArgs ==
    {Omit([organizationId |-> o, projectId |-> j, catalogueId |-> g, collectionId |-> l,
           creators |-> cr, collections |-> co, projects |-> pr, page |-> p, size |-> z]) :
        o \in OrgIds, j \in ProjectIds, g \in CatalogueIds, l \in CollectionIds,
        cr \in {Undefined, Arr(<<>>), Arr(<<Str("usr1")>>)},
        co \in {Undefined, Arr(<<>>), Arr(<<Str("col9")>>)},
        pr \in {Undefined, Arr(<<>>), Arr(<<Str("prj9")>>)},
        p \in {Undefined, Num(1)},
        z \in {Undefined, Num(20)}}

\* A tool name the switch has no case for.
UnknownTools == {"delete_project"}

\* The `arguments` of a tools/call request; undefined when the request has none.
RecentProjectsToolArgs ==
    {Undefined, EmptyObj, Obj([organizationId |-> Str("")]),
     Obj([organizationId |-> Str("org1")])}

SearchToolArgs ==
    {Undefined, Obj([searchString |-> Str("pay")]),
     Obj([organizationId |-> Str("org1")]),
     Obj([organizationId |-> Str("org2"), searchString |-> Str("pay"),
          isAssign |-> Bool(FALSE), page |-> Num(2), size |-> Num(5),
          isDefault |-> Bool(TRUE), sort |-> Str("name,desc")])}

CataloguesToolArgs ==
    {Undefined} \cup
    {Omit([organizationId |-> o, projectId |-> j]) :
        o \in {Undefined, Str("org1")}, j \in {Undefined, Str("prj1")}}

ApiToolArgs ==
    {Undefined} \cup
    {Omit([organizationId |-> o, projectId |-> j, catalogueId |-> g, collectionId |-> l,
           creators |-> cr, size |-> z]) :
        o \in {Undefined, Str("org1")}, j \in {Undefined, Str("prj1")},
        g \in {Undefined, Str("cat1")}, l \in {Undefined, Str("col1")},
        cr \in {Undefined, Arr(<<>>), Arr(<<Str("usr1")>>)},
        z \in {Undefined, Num(20)}}

NoTool == [name |-> "none", arguments |-> Undefined]

\* The process once main has constructed the server from its environment.
Running(cfg) ==
    [env    |-> [XAPIHUB_BASE_URL |-> Str(cfg.baseUrl), XAPIHUB_TOKEN |-> Str(cfg.token)],
     status |-> "running",
     stderr |-> <<>>]

\* process.env after dotenv's config(): a variable is a string or is not set.
Envs ==
    [XAPIHUB_BASE_URL : {Undefined, Str("")} \cup {Str(cfg.baseUrl) : cfg \in Configs},
     XAPIHUB_TOKEN    : {Undefined, Str("")} \cup {Str(cfg.token) : cfg \in Configs}]

----------------------------------------------------------------------------
(* The state machine *)

Init ==
    /\ config \in Configs
    /\ pc = [c \in Calls |-> "idle"]
    /\ op = [c \in Calls |-> "none"]
    /\ params = [c \in Calls |-> Undefined]
    /\ requests = [c \in Calls |-> <<>>]
    /\ response = [c \in Calls |-> Pending]
    /\ result = [c \in Calls |-> Pending]
    /\ log = [c \in Calls |-> <<>>]
    /\ tool = [c \in Calls |-> NoTool]
    /\ reply = [c \in Calls |-> Pending]
    /\ process = Running(config)

\* Issuing with the arguments kept in one field of the client, which every
\* call in flight then reads.
IssueShared(c, o, p, req) ==
    /\ pc' = [pc EXCEPT ![c] = "awaiting"]
    /\ op' = [op EXCEPT ![c] = o]
    /\ params' = [k \in DOMAIN params |-> p]
    /\ requests' = [requests EXCEPT ![c] = Append(@, req)]
    /\ UNCHANGED <<config, response, result, log, process>>

\* A facade operation runs up to its await: the request is issued and the
\* operation is suspended.
Issue(c, o, p, req) ==
    /\ pc' = [pc EXCEPT ![c] = "awaiting"]
    /\ op' = [op EXCEPT ![c] = o]
    /\ params' = [params EXCEPT ![c] = p]
    /\ requests' = [requests EXCEPT ![c] = Append(@, req)]
    /\ UNCHANGED <<config, response, result, log, process>>

CallGetCurrentUser(c) ==
    /\ pc[c] = "idle"
    /\ UNCHANGED <<tool, reply>>
    /\ Issue(c, "getCurrentUser", Undefined, getCurrentUserRequest(config))

CallTestConnection(c) ==
    /\ pc[c] = "idle"
    /\ UNCHANGED <<tool, reply>>
    /\ Issue(c, "testConnection", Undefined, getCurrentUserRequest(config))

CallGetAccessedOrganizations(c) ==
    /\ pc[c] = "idle"
    /\ UNCHANGED <<tool, reply>>
    /\ Issue(c, "getAccessedOrganizations", Undefined, getAccessedOrganizationsRequest(config))

CallGetRecentAccessedProjects(c) ==
    /\ pc[c] = "idle"
    /\ UNCHANGED <<tool, reply>>
    /\ \E o \in OrgIds :
        Issue(c, "getRecentAccessedProjects", Obj([organizationId |-> o]),
              getRecentAccessedProjectsRequest(config, o))

CallSearchProjects(c) ==
    /\ pc[c] = "idle"
    /\ UNCHANGED <<tool, reply>>
    /\ \E p \in SearchArgs :
        Issue(c, "searchProjects", p, searchProjectsRequest(config, p))

CallGetCatalogues(c) ==
    /\ pc[c] = "idle"
    /\ UNCHANGED <<tool, reply>>
    /\ \E o \in OrgIds, j \in ProjectIds :
        Issue(c, "getCatalogues", Obj([organizationId |-> o, projectId |-> j]),
              getCataloguesRequest(config, o, j))

CallGetApiDetails(c) ==
    /\ pc[c] = "idle"
    /\ UNCHANGED <<tool, reply>>
    /\ \E p \in FilterArgs :
        Issue(c, "getApiDetails", p, getApiDetailsRequest(config, p))

\* The tools/call handler serves a request for tool `name`: the switch, the
\* handler's guard and its facade call up to the await, or the throw that the
\* catch turns into the handler's completion.
Dispatch(c, name, args) ==
    LET passed == Dispatched(name, args)
    IN  /\ tool' = [tool EXCEPT ![c] = [name |-> name, arguments |-> args]]
        /\ IF passed.kind = "throw"
           THEN /\ pc' = [pc EXCEPT ![c] = "thrown"]
                /\ reply' = [reply EXCEPT ![c] = CallToolCatch(passed)]
                /\ UNCHANGED <<config, op, params, requests, response, result, log,
                               process>>
           ELSE /\ Issue(c, Facade(name), passed.value,
                         RequestOf(config, Facade(name), passed.value))
                /\ UNCHANGED reply

ToolGetCurrentUser(c) ==
    /\ pc[c] = "idle"
    /\ Dispatch(c, "get_current_user", Undefined)

ToolTestConnection(c) ==
    /\ pc[c] = "idle"
    /\ Dispatch(c, "test_xapihub_connection", Undefined)

ToolGetAccessedOrganizations(c) ==
    /\ pc[c] = "idle"
    /\ Dispatch(c, "get_accessed_organizations", Undefined)

ToolGetRecentAccessedProjects(c) ==
    /\ pc[c] = "idle"
    /\ \E args \in RecentProjectsToolArgs :
          Dispatch(c, "get_recent_accessed_projects", args)

ToolSearchProjects(c) ==
    /\ pc[c] = "idle"
    /\ \E args \in SearchToolArgs : Dispatch(c, "search_projects", args)

ToolGetCatalogues(c) ==
    /\ pc[c] = "idle"
    /\ \E args \in CataloguesToolArgs : Dispatch(c, "get_catalogues", args)

ToolGetApiDetails(c) ==
    /\ pc[c] = "idle"
    /\ \E args \in ApiToolArgs : Dispatch(c, "get_api_details", args)

ToolUnknown(c) ==
    /\ pc[c] = "idle"
    /\ \E name \in UnknownTools : Dispatch(c, name, Undefined)

\* The rest of a facade operation, from the settled await to its return.
\* The label under which an operation logs the payload of a 2xx response.
RawResponseLabel(o) ==
    CASE o \in {"getCurrentUser", "testConnection"} -> "Raw API Response:"
      [] o = "getAccessedOrganizations"  -> "Raw Organizations API Response:"
      [] o = "getRecentAccessedProjects" -> "Raw Projects API Response:"
      [] o = "searchProjects"            -> "Raw Project Search API Response:"
      [] o = "getCatalogues"             -> "Raw Catalogues API Response:"
      [] o = "getApiDetails"             -> "Raw API Filter Response:"

\* What a settling request writes to the console: the interceptor's entry
\* for a rejection, the operation's entry of the raw payload otherwise.
Logged(o, outcome) ==
    IF outcome.kind = "rejected"
    THEN InterceptorLog(outcome.error)
    ELSE ConsoleError(RawResponseLabel(o), JsonStringify(outcome.data))

Complete(o, p, outcome) ==
    CASE o = "getCurrentUser"            -> getCurrentUser(outcome)
      [] o = "testConnection"            -> testConnection(getCurrentUser(outcome))
      [] o = "getAccessedOrganizations"  -> getAccessedOrganizations(outcome)
      [] o = "getRecentAccessedProjects" -> getRecentAccessedProjects(outcome)
      [] o = "searchProjects"            -> searchProjects(p, outcome)
      [] o = "getCatalogues"             -> getCatalogues(outcome)
      [] o = "getApiDetails"             -> getApiDetails(p, outcome)

\* Settling with one retry: a rejected request is issued once more (and is
\* rejected alike) before the operation returns.
SettleRetrying(c, outcome) ==
    /\ pc' = [pc EXCEPT ![c] = "done"]
    /\ response' = [response EXCEPT ![c] = outcome]
    /\ result' = [result EXCEPT ![c] = Complete(op[c], params[c], outcome)]
    /\ log' = [log EXCEPT ![c] = Append(@, Logged(op[c], outcome))]
    /\ reply' = [reply EXCEPT ![c] =
                   IF tool[c] = NoTool THEN @
                   ELSE CallToolCatch(Handled(tool[c].name, tool[c].arguments, params[c],
                                              Complete(op[c], params[c], outcome)))]
    /\ requests' = [requests EXCEPT ![c] =
                      IF outcome.kind = "rejected" THEN Append(@, @[Len(@)]) ELSE @]
    /\ UNCHANGED <<config, op, params, tool, process>>

\* Settling with a session refresh: a 401 answer makes the client swap its
\* token for the other one.
SettleRefreshingToken(c, outcome) ==
    /\ pc' = [pc EXCEPT ![c] = "done"]
    /\ response' = [response EXCEPT ![c] = outcome]
    /\ result' = [result EXCEPT ![c] = Complete(op[c], params[c], outcome)]
    /\ log' = [log EXCEPT ![c] = Append(@, Logged(op[c], outcome))]
    /\ reply' = [reply EXCEPT ![c] =
                   IF tool[c] = NoTool THEN @
                   ELSE CallToolCatch(Handled(tool[c].name, tool[c].arguments, params[c],
                                              Complete(op[c], params[c], outcome)))]
    /\ config' = IF /\ outcome.kind = "rejected"
                    /\ OptGet(Get(outcome.error, "response"), "status") = Num(401)
                 THEN [config EXCEPT !.token = CHOOSE t \in Tokens : t # @]
                 ELSE config
    /\ UNCHANGED <<op, params, requests, tool, process>>

\* The awaited request settles: the interceptor logs a rejection, the facade
\* operation runs to its return and, in a tool call, the handler to its own.
Settle(c, outcome) ==
    /\ pc' = [pc EXCEPT ![c] = "done"]
    /\ response' = [response EXCEPT ![c] = outcome]
    /\ result' = [result EXCEPT ![c] = Complete(op[c], params[c], outcome)]
    /\ log' = [log EXCEPT ![c] = Append(@, Logged(op[c], outcome))]
    /\ reply' = [reply EXCEPT ![c] =
                   IF tool[c] = NoTool THEN @
                   ELSE CallToolCatch(Handled(tool[c].name, tool[c].arguments, params[c],
                                              Complete(op[c], params[c], outcome)))]
    /\ UNCHANGED <<config, op, params, requests, tool, process>>

\* The backend answers 2xx.
Respond2xx(c) ==
    /\ pc[c] = "awaiting"
    /\ \E d \in Payloads(op[c]) : Settle(c, Resolved(d))

\* The backend answers with a status outside 2xx.
RespondStatus(c) ==
    /\ pc[c] = "awaiting"
    /\ \E s \in Statuses, b \in ErrorBodies :
          Settle(c, Rejected(StatusError(requests[c][Len(requests[c])], s, b)))

\* The request gets no response.
FailNetwork(c) ==
    /\ pc[c] = "awaiting"
    /\ Settle(c, Rejected(NetworkError(requests[c][Len(requests[c])])))

\* The request outlives the timeout.
FailTimeout(c) ==
    /\ pc[c] = "awaiting"
    /\ Settle(c, Rejected(TimeoutError(requests[c][Len(requests[c])])))

\* The caller has the result; the next invocation starts afresh.
Collect(c) ==
    /\ pc[c] \in {"done", "thrown"}
    /\ pc' = [pc EXCEPT ![c] = "idle"]
    /\ op' = [op EXCEPT ![c] = "none"]
    /\ params' = [params EXCEPT ![c] = Undefined]
    /\ requests' = [requests EXCEPT ![c] = <<>>]
    /\ response' = [response EXCEPT ![c] = Pending]
    /\ result' = [result EXCEPT ![c] = Pending]
    /\ log' = [log EXCEPT ![c] = <<>>]
    /\ tool' = [tool EXCEPT ![c] = NoTool]
    /\ reply' = [reply EXCEPT ![c] = Pending]
    /\ UNCHANGED <<config, process>>

Next ==
    \E c \in Calls :
        \/ CallGetCurrentUser(c)
        \/ CallTestConnection(c)
        \/ CallGetAccessedOrganizations(c)
        \/ CallGetRecentAccessedProjects(c)
        \/ CallSearchProjects(c)
        \/ CallGetCatalogues(c)
        \/ CallGetApiDetails(c)
        \/ ToolGetCurrentUser(c)
        \/ ToolTestConnection(c)
        \/ ToolGetAccessedOrganizations(c)
        \/ ToolGetRecentAccessedProjects(c)
        \/ ToolSearchProjects(c)
        \/ ToolGetCatalogues(c)
        \/ ToolGetApiDetails(c)
        \/ ToolUnknown(c)
        \/ Respond2xx(c)
        \/ RespondStatus(c)
        \/ FailNetwork(c)
        \/ FailTimeout(c)
        \/ Collect(c)

Spec == Init /\ [][Next]_vars

----------------------------------------------------------------------------
(* Startup: main of index.ts, from the process's environment to the running
   server *)

\* process.exit(1) after the console.error of `message`.
Exit(message) ==
    /\ process' = [process EXCEPT !.status = "exited", !.stderr = Append(@, message)]
    /\ UNCHANGED <<config, pc, op, params, requests, response, result, log, tool, reply>>

\* main without its check of the token.
mainTokenUnchecked ==
    /\ process.status = "starting"
    /\ LET baseUrl == process.env.XAPIHUB_BASE_URL
           token   == process.env.XAPIHUB_TOKEN
       IN  IF ~Truthy(baseUrl)
           THEN Exit("Error: XAPIHUB_BASE_URL environment variable is required")
           ELSE /\ config' = [baseUrl |-> JsToString(baseUrl),
                              token   |-> IF Truthy(token) THEN token.v ELSE ""]
                /\ process' = [process EXCEPT !.status = "running"]
                /\ UNCHANGED <<pc, op, params, requests, response, result, log, tool,
                               reply>>

main ==
    /\ process.status = "starting"
    /\ LET baseUrl == process.env.XAPIHUB_BASE_URL
           token   == process.env.XAPIHUB_TOKEN
       IN  IF ~Truthy(baseUrl)
           THEN Exit("Error: XAPIHUB_BASE_URL environment variable is required")
           ELSE IF ~Truthy(token)
           THEN Exit("Error: XAPIHUB_TOKEN environment variable is required")
           ELSE /\ config' = [baseUrl |-> baseUrl.v, token |-> token.v]
                /\ process' = [process EXCEPT !.status = "running"]
                /\ UNCHANGED <<pc, op, params, requests, response, result, log, tool,
                               reply>>

\* No client exists before main constructs the server.
StartInit ==
    /\ config = Undefined
    /\ process \in [env : Envs, status : {"starting"}, stderr : {<<>>}]
    /\ pc = [c \in Calls |-> "idle"]
    /\ op = [c \in Calls |-> "none"]
    /\ params = [c \in Calls |-> Undefined]
    /\ requests = [c \in Calls |-> <<>>]
    /\ response = [c \in Calls |-> Pending]
    /\ result = [c \in Calls |-> Pending]
    /\ log = [c \in Calls |-> <<>>]
    /\ tool = [c \in Calls |-> NoTool]
    /\ reply = [c \in Calls |-> Pending]

\* Calls are served once the server runs; an exited process takes no step.
StartNext ==
    \/ main
    \/ process.status = "running" /\ Next

StartSpec == StartInit /\ [][StartNext]_vars

----------------------------------------------------------------------------
(* Tool calls dispatched concurrently: a second tools/call request is served
   while the first is suspended at its await *)

ConcCalls == 1..MaxCalls

\* The tools/call requests and the backend's answers of the concurrent runs.
ConcTools ==
    {[name |-> "get_current_user", arguments |-> Undefined],
     [name |-> "test_xapihub_connection", arguments |-> Undefined],
     [name |-> "get_accessed_organizations", arguments |-> Undefined],
     [name |-> "get_recent_accessed_projects", arguments |-> EmptyObj],
     [name |-> "get_recent_accessed_projects",
      arguments |-> Obj([organizationId |-> Str("org1")])],
     [name |-> "search_projects",
      arguments |-> Obj([organizationId |-> Str("org2"), size |-> Num(5)])],
     [name |-> "get_catalogues",
      arguments |-> Obj([organizationId |-> Str("org1"), projectId |-> Str("prj1")])],
     [name |-> "get_api_details",
      arguments |-> Obj([organizationId |-> Str("org1"), projectId |-> Str("prj1"),
                         catalogueId |-> Str("cat1"), collectionId |-> Str("col1")])]}

ConcPayloads(o) ==
    CASE o \in {"getCurrentUser", "testConnection"} ->
            {Obj([id |-> Str("u-1"), userName |-> Str("alice")])}
      [] o \in {"getAccessedOrganizations", "getRecentAccessedProjects", "getCatalogues"} ->
            {EmptyObj, Obj([data |-> Arr(<<Obj([id |-> Str("x-1")])>>)])}
      [] o \in {"searchProjects", "getApiDetails"} ->
            {Arr(<<Null>>), Obj([content |-> Arr(<<Obj([id |-> Str("x-1")])>>)])}

ConcOutcomes(o, req) ==
    {Resolved(d) : d \in ConcPayloads(o)}
    \cup {Rejected(StatusError(req, 401, Str(""))), Rejected(TimeoutError(req))}

ConcInit ==
    /\ config \in Configs
    /\ pc = [c \in ConcCalls |-> "idle"]
    /\ op = [c \in ConcCalls |-> "none"]
    /\ params = [c \in ConcCalls |-> Undefined]
    /\ requests = [c \in ConcCalls |-> <<>>]
    /\ response = [c \in ConcCalls |-> Pending]
    /\ result = [c \in ConcCalls |-> Pending]
    /\ log = [c \in ConcCalls |-> <<>>]
    /\ tool = [c \in ConcCalls |-> NoTool]
    /\ reply = [c \in ConcCalls |-> Pending]
    /\ process = Running(config)

ConcDispatch(c) ==
    /\ pc[c] = "idle"
    /\ \E t \in ConcTools : Dispatch(c, t.name, t.arguments)

ConcSettle(c) ==
    /\ pc[c] = "awaiting"
    /\ \E outcome \in ConcOutcomes(op[c], requests[c][Len(requests[c])]) :
          Settle(c, outcome)

ConcNext ==
    \E c \in ConcCalls :
        \/ ConcDispatch(c)
        \/ ConcSettle(c)
        \/ Collect(c)

ConcSpec == ConcInit /\ [][ConcNext]_vars

\* An instance without a timeout: the request stays pending.
TimeoutNever(c) ==
    /\ pc[c] = "awaiting"
    /\ UNCHANGED <<pc, response>>

\* The instance's timeout expiring on the pending request of call c, as pc
\* and response show it: the request is rejected with the timeout error and
\* the await ends.
TimeoutFires(c) ==
    /\ pc[c] = "awaiting"
    /\ pc' = [pc EXCEPT ![c] = "done"]
    /\ response' = [response EXCEPT ![c] =
                      Rejected(TimeoutError(requests[c][Len(requests[c])]))]

\* The timeout is armed with every request: a request still pending when it
\* expires is rejected. Nothing obliges the backend to answer, or a caller
\* to call or to collect.
FairSpec == ConcSpec /\ \A c \in ConcCalls : WF_<<pc, response>>(TimeoutFires(c))

----------------------------------------------------------------------------
(* Properties *)

Done(c) == pc[c] = "done"

LastRequest(c) == requests[c][Len(requests[c])]

\* The facade operation of call c returned a Result with this `success`.
Returned(c, success) ==
    /\ Done(c)
    /\ result[c].kind = "return"
    /\ Get(result[c].value, "success") = Bool(success)

Data(c) == Get(result[c].value, "data")

\* The operation's wording in its failure message.
Wording(o) ==
    CASE o = "getCurrentUser"            -> "get current user"
      [] o = "getAccessedOrganizations"  -> "get accessed organizations"
      [] o = "getRecentAccessedProjects" -> "get recent accessed projects"
      [] o = "searchProjects"            -> "search projects"
      [] o = "getCatalogues"             -> "get catalogues"
      [] o = "getApiDetails"             -> "get API details"

\* C1: whenever the backend fails the getCurrentUser call that testConnection
\* delegates to (for instance with HTTP 401), so that the call ends in a
\* Failure, testConnection reports success false and connected (data) false.
C1_TestConnectionReportsFailure ==
    \A c \in Calls :
        (/\ Done(c)
         /\ op[c] = "testConnection"
         /\ response[c].kind = "rejected"
         /\ Get(getCurrentUser(response[c]).value, "success") = Bool(FALSE))
        => /\ Returned(c, FALSE)
           /\ Data(c) = Bool(FALSE)

\* C2: whatever the backend does (2xx with any payload, another status, no
\* response, timeout), each of the seven facade operations completes by
\* returning a Result object; it never completes by throwing.
C2_NoExceptionEscapes ==
    \A c \in Calls :
        Done(c) =>
            /\ op[c] \in Operations
            /\ result[c].kind = "return"
            /\ result[c].value.t = "object"
            /\ Get(result[c].value, "success").t = "boolean"

\* A request that timed out and a 2xx payload whose normalisation throws have
\* both ended in a returned Failure.
C2_Witness ==
    \E c \in Calls :
        /\ Returned(c, FALSE)
        /\ op[c] = "getCatalogues"
        /\ \/ response[c] = Rejected(TimeoutError(LastRequest(c)))
           \/ response[c] = Resolved(Null)

\* C3: for every facade operation but testConnection a transport error gives
\* Failure whose error is the underlying error's message and whose message is
\* "Failed to <operation>: <status>" when a response with a status came back
\* and "Failed to <operation>: Unknown error" when none did.
C3_TransportFailureShape ==
    \A c \in Calls :
        (Done(c) /\ op[c] # "testConnection" /\ response[c].kind = "rejected") =>
            LET error == response[c].error.v
                tail  == IF "response" \in DOMAIN error
                         THEN ToString(error.response.v.status.v)
                         ELSE "Unknown error"
            IN  result[c] =
                    Return(Obj([success |-> Bool(FALSE),
                                error   |-> error.message,
                                message |-> Str("Failed to " \o Wording(op[c])
                                                \o ": " \o tail)]))

\* getCurrentUser answered 401 has returned the Failure whose message ends in 401.
C3_Witness ==
    \E c \in Calls :
        /\ Done(c)
        /\ op[c] = "getCurrentUser"
        /\ response[c].kind = "rejected"
        /\ Get(Get(response[c].error, "response"), "status") = Num(401)
        /\ result[c].kind = "return"
        /\ Get(result[c].value, "message") = Str("Failed to get current user: 401")
        /\ Get(result[c].value, "error") = Str("Request failed with status code 401")

\* C4: a 2xx response never yields a Failure, whatever JSON value its payload
\* is (null, a scalar, an empty object, an object of unrecognised fields): the
\* result is a Success, with an empty list or page for the list and page
\* operations when the payload is no envelope.
C4_ShapeMismatchNeverFails ==
    \A c \in Calls :
        (Done(c) /\ response[c].kind = "resolved") =>
            /\ Returned(c, TRUE)
            /\ (/\ response[c].data \in OddPayloads
                /\ op[c] \in {"getAccessedOrganizations", "getRecentAccessedProjects",
                              "getCatalogues"})
               => Data(c) = Arr(<<>>)
            /\ (/\ response[c].data \in OddPayloads
                /\ op[c] \in {"searchProjects", "getApiDetails"})
               => Get(Data(c), "content") = Arr(<<>>)

ListOperations == {"getAccessedOrganizations", "getRecentAccessedProjects", "getCatalogues"}

PageOperations == {"searchProjects", "getApiDetails"}

\* The list field that is specific to the operation's resource.
SpecificKey(o) ==
    CASE o = "getAccessedOrganizations"  -> "recentAccessedOrganizationResourceList"
      [] o = "getRecentAccessedProjects" -> "recentAccessedProjectResourceList"
      [] o = "getCatalogues"             -> "catalogues"

\* C5: for each list operation and each sequence E of raw objects, the
\* envelopes {<resource-specific list field>: E}, {data: E} and {content: E}
\* normalise to what the bare array E normalises to.
C5_ListEnvelopesAgree ==
    \A c \in Calls :
        (Done(c) /\ op[c] \in ListOperations /\ response[c].kind = "resolved") =>
            LET d == response[c].data
            IN  \A k \in {SpecificKey(op[c]), "data", "content"} :
                    (/\ d.t = "object"
                     /\ DOMAIN d.v = {k}
                     /\ IsArray(d.v[k])
                     /\ \A i \in 1..Len(d.v[k].v) : d.v[k].v[i].t = "object") =>
                        result[c] = Complete(op[c], params[c], Resolved(d.v[k]))

\* What the caller asked for, or the documented default.
Requested(c, k, default) ==
    IF params[c].t = "object" /\ k \in DOMAIN params[c].v THEN params[c].v[k] ELSE default

DefaultSize(o) == IF o = "searchProjects" THEN Num(12) ELSE Num(8)

\* C6: for both page operations a 2xx payload that is a bare array of length N
\* gives Success with totalElements = N, totalPages = 1, first = last = true,
\* and size and number equal to the requested (or defaulted) size and page.
C6_BareArrayPage ==
    \A c \in Calls :
        (/\ Done(c)
         /\ op[c] \in PageOperations
         /\ response[c].kind = "resolved"
         /\ IsArray(response[c].data)) =>
            /\ Returned(c, TRUE)
            /\ Get(Data(c), "totalElements") = Num(Len(response[c].data.v))
            /\ Get(Data(c), "totalPages") = Num(1)
            /\ Get(Data(c), "first") = Bool(TRUE)
            /\ Get(Data(c), "last") = Bool(TRUE)
            /\ Get(Data(c), "size") = Requested(c, "size", DefaultSize(op[c]))
            /\ Get(Data(c), "number") = Requested(c, "page", Num(0))

\* The canonical records a Success carries.
Records(c) ==
    CASE op[c] = "getCurrentUser"  -> {Data(c)}
      [] op[c] \in ListOperations  -> {Data(c).v[i] : i \in 1..Len(Data(c).v)}
      [] op[c] \in PageOperations  ->
            LET content == Get(Data(c), "content").v
            IN  {content[i] : i \in 1..Len(content)}
      [] OTHER -> {}

\* The fields of the canonical record of each operation's resource, with the
\* documented default of each.
Defaults(o) ==
    CASE o = "getCurrentUser" ->
            [id |-> Str(""), username |-> Str(""), email |-> Str(""),
             createdOn |-> Str(""), modifiedOn |-> Str("")]
      [] o = "getAccessedOrganizations" ->
            [id |-> Str(""), name |-> Str(""), description |-> Str(""),
             organizationVisibility |-> Str("PRIVATE"),
             createdOn |-> Str(""), modifiedOn |-> Str("")]
      [] o \in {"getRecentAccessedProjects", "searchProjects"} ->
            [id |-> Str(""), name |-> Str(""), description |-> Str(""),
             enableKanbanBoard |-> Bool(FALSE)]
      [] o = "getCatalogues" ->
            [id |-> Str(""), name |-> Str(""), description |-> Str(""),
             version |-> Str(""), status |-> Str(""), createdOn |-> Str(""),
             modifiedOn |-> Str(""), rootCollectionId |-> Str("")]
      [] o = "getApiDetails" ->
            [id |-> Str(""), name |-> Str(""), description |-> Str(""),
             version |-> Str(""), status |-> Str(""), createdBy |-> Str(""),
             modifiedBy |-> Str(""), apiType |-> Str(""), visibility |-> Str("")]

\* C7: in every Success every field of every canonical record is present and
\* defined, and a record made from a raw object with no fields holds the
\* documented default in every field.
C7_AllFieldsDefined ==
    \A c \in Calls :
        (Returned(c, TRUE) /\ op[c] # "testConnection") =>
            /\ \A r \in Records(c) :
                  /\ r.t = "object"
                  /\ \A k \in DOMAIN Defaults(op[c]) :
                        k \in DOMAIN r.v /\ r.v[k] # Undefined
            /\ (op[c] = "getCurrentUser" /\ response[c].data = EmptyObj)
                  => \A k \in DOMAIN Defaults(op[c]) : Get(Data(c), k) = Defaults(op[c])[k]
            /\ (op[c] # "getCurrentUser" /\ response[c].data = Arr(<<EmptyObj>>))
                  => \A r \in Records(c) :
                        \A k \in DOMAIN Defaults(op[c]) : Get(r, k) = Defaults(op[c])[k]

\* The mapper of each operation's resource.
Mapper(o, raw) ==
    CASE o = "getCurrentUser"            -> mapUser(raw)
      [] o = "getAccessedOrganizations"  -> mapOrganization(raw)
      [] o = "getRecentAccessedProjects" -> mapProject(raw)
      [] o = "searchProjects"            -> mapProject(raw)
      [] o = "getCatalogues"             -> mapCatalogue(raw)
      [] o = "getApiDetails"             -> mapApi(raw)

\* C8: every canonical record a Success carries is a fixed point of its
\* resource's mapper.
C8_MapperIdempotent ==
    \A c \in Calls :
        (Returned(c, TRUE) /\ op[c] # "testConnection") =>
            \A r \in Records(c) : Mapper(op[c], r) = Return(r)

\* The value of the first of k1, k2 that the raw object has, else "".
FirstPresent(raw, k1, k2) ==
    IF Get(raw, k1) # Undefined THEN Get(raw, k1)
    ELSE IF Get(raw, k2) # Undefined THEN Get(raw, k2)
    ELSE Str("")

\* C9: the user's username is read from the first present of userName and
\* username, its email from the first present of emailAddress and email, and
\* each is the empty string when neither is present.
C9_UserFieldFallbacks ==
    \A c \in Calls :
        (/\ Done(c)
         /\ op[c] = "getCurrentUser"
         /\ response[c].kind = "resolved"
         /\ response[c].data.t = "object") =>
            /\ Returned(c, TRUE)
            /\ Get(Data(c), "username") = FirstPresent(response[c].data, "userName", "username")
            /\ Get(Data(c), "email") = FirstPresent(response[c].data, "emailAddress", "email")

\* The text of a query parameter.
QueryText(v) ==
    CASE v.t = "boolean" -> IF v.v THEN "true" ELSE "false"
      [] v.t = "number"  -> ToString(v.v)
      [] v.t = "string"  -> v.v

\* C10: searchProjects issues exactly one request over its lifetime: a POST to
\* the organization's search path whose query carries isAssign, page, size,
\* isDefault and sort and whose body is {searchString}, each being the value
\* passed or, when omitted, its default ("" / true / 0 / 12 / false /
\* "name,asc").
C10_SearchProjectsRequest ==
    \A c \in Calls :
        (op[c] = "searchProjects" /\ pc[c] \in {"awaiting", "done"}) =>
            /\ Len(requests[c]) = 1
            /\ requests[c][1].method = "POST"
            /\ requests[c][1].url.path =
                  "/project/1.0.0/organizations/" \o params[c].v.organizationId.v
                      \o "/projects/search"
            /\ requests[c][1].url.query =
                  << <<"isAssign", QueryText(Requested(c, "isAssign", Bool(TRUE)))>>,
                     <<"page", QueryText(Requested(c, "page", Num(0)))>>,
                     <<"size", QueryText(Requested(c, "size", Num(12)))>>,
                     <<"isDefault", QueryText(Requested(c, "isDefault", Bool(FALSE)))>>,
                     <<"sort", QueryText(Requested(c, "sort", Str("name,asc")))>> >>
            /\ requests[c][1].data =
                  Obj([searchString |-> Requested(c, "searchString", Str(""))])

\* searchProjects called with organizationId "org1" alone has answered, having
\* issued the one POST with every default in place.
C10_Witness ==
    \E c \in Calls :
        /\ Done(c)
        /\ op[c] = "searchProjects"
        /\ params[c] = Obj([organizationId |-> Str("org1")])
        /\ requests[c] =
              << Request(config, "POST", "/project/1.0.0/organizations/org1/projects/search",
                         << <<"isAssign", "true">>, <<"page", "0">>, <<"size", "12">>,
                            <<"isDefault", "false">>, <<"sort", "name,asc">> >>,
                         Obj([searchString |-> Str("")]),
                         ("content-type" :> "application/json") @@ BrowserHeaders) >>

\* What the caller of call c passed: the arguments of the tool call, or of
\* the facade operation when it is invoked directly.
Asked(c) == IF tool[c] = NoTool THEN params[c] ELSE tool[c].arguments

\* The caller left k out, or passed the empty array.
OmittedOrEmpty(c, k) == Get(Asked(c), k) \in {Undefined, Arr(<<>>)}

\* C11: getApiDetails called with the four ids, with creators, collections and
\* projects each omitted or empty and with page and size omitted, issues
\* exactly one request: a POST to the path built from the organization,
\* project, catalogue and collection ids, with the query page=0&size=8 and the
\* body {creators: [], collections: [], projects: []}.
C11_FilterRequest ==
    \A c \in Calls :
        (/\ op[c] = "getApiDetails"
         /\ pc[c] \in {"awaiting", "done"}
         /\ \A k \in {"creators", "collections", "projects"} : OmittedOrEmpty(c, k)
         /\ Get(Asked(c), "page") = Undefined
         /\ Get(Asked(c), "size") = Undefined) =>
            /\ Len(requests[c]) = 1
            /\ requests[c][1].method = "POST"
            /\ requests[c][1].url.path =
                  "/global-search-read/1.0.0/organizations/" \o Get(Asked(c), "organizationId").v
                      \o "/projects/" \o Get(Asked(c), "projectId").v
                      \o "/catalogues/" \o Get(Asked(c), "catalogueId").v
                      \o "/collections/" \o Get(Asked(c), "collectionId").v
                      \o "/apis/filter"
            /\ requests[c][1].url.query = << <<"page", "0">>, <<"size", "8">> >>
            /\ requests[c][1].data =
                  Obj([creators |-> Arr(<<>>), collections |-> Arr(<<>>),
                       projects |-> Arr(<<>>)])

\* getApiDetails called with the four ids, an empty creators array and nothing
\* else has answered, having issued the one POST.
C11_Witness ==
    \E c \in Calls :
        /\ Done(c)
        /\ op[c] = "getApiDetails"
        /\ Asked(c) = Obj([organizationId |-> Str("org2"), projectId |-> Str("prj1"),
                           catalogueId |-> Str("cat1"), collectionId |-> Str("col1"),
                           creators |-> Arr(<<>>)])
        /\ Len(requests[c]) = 1
        /\ requests[c][1].url.path =
              "/global-search-read/1.0.0/organizations/org2/projects/prj1/catalogues/cat1/collections/col1/apis/filter"
        /\ requests[c][1].url.query = << <<"page", "0">>, <<"size", "8">> >>

\* The list fields an operation's envelope is recognised by.
ListFields(o) ==
    CASE o = "getAccessedOrganizations" ->
            {"recentAccessedOrganizationResourceList", "organizations", "data", "content"}
      [] o = "getRecentAccessedProjects" ->
            {"recentAccessedProjectResourceList", "projects", "data", "content"}
      [] o = "getCatalogues" ->
            {"catalogues", "data", "content"}

\* C12: for each list operation a 2xx payload that is an object none of whose
\* recognised list fields holds an array (the empty object included) gives
\* Success with the empty list.
C12_NoListFieldGivesEmptyList ==
    \A c \in Calls :
        (/\ Done(c)
         /\ op[c] \in ListOperations
         /\ response[c].kind = "resolved"
         /\ response[c].data.t = "object"
         /\ \A k \in ListFields(op[c]) : ~IsArray(Get(response[c].data, k))) =>
            /\ Returned(c, TRUE)
            /\ Data(c) = Arr(<<>>)

\* getCatalogues answered {} has returned Success with the empty list.
C12_Witness ==
    \E c \in Calls :
        /\ op[c] = "getCatalogues"
        /\ response[c] = Resolved(EmptyObj)
        /\ Returned(c, TRUE)
        /\ Data(c) = Arr(<<>>)

\* C13: from its invocation until its result is collected, every facade
\* operation (testConnection too) has issued exactly one HTTP request: one as
\* soon as it is invoked, and no further one after a 2xx answer, another
\* status, a network failure or a timeout.
C13_ExactlyOneRequest ==
    \A c \in Calls :
        /\ op[c] \in Operations <=> pc[c] \in {"awaiting", "done"}
        /\ op[c] \in Operations => Len(requests[c]) = 1
        /\ (Done(c) /\ response[c].kind = "rejected") =>
              requests[c] = << RequestOf(config, op[c], params[c]) >>

\* testConnection has returned after its request timed out, and
\* that request is the only one it issued.
C13_Witness ==
    \E c \in Calls :
        /\ Done(c)
        /\ op[c] = "testConnection"
        /\ response[c] = Rejected(TimeoutError(getCurrentUserRequest(config)))
        /\ requests[c] = << getCurrentUserRequest(config) >>

\* The parameters a tool requires.
Required(name) ==
    CASE name \in {"get_recent_accessed_projects", "search_projects"} -> {"organizationId"}
      [] name = "get_catalogues" -> {"organizationId", "projectId"}
      [] name = "get_api_details" ->
            {"organizationId", "projectId", "catalogueId", "collectionId"}
      [] OTHER -> {}

\* Call c serves a tool call that leaves out a parameter its tool requires.
LacksRequired(c) ==
    /\ tool[c].name \in ToolNames
    /\ \E k \in Required(tool[c].name) : Get(tool[c].arguments, k) = Undefined

\* C15: a tool call that leaves out a required parameter ends by throwing, to
\* the caller of the tools/call handler, an error whose code is InvalidParams
\* (and so differs from the InternalError code of internal failures).
C15_MissingParameterIsInvalidParams ==
    \A c \in Calls :
        LacksRequired(c) =>
            /\ reply[c].kind = "throw"
            /\ Get(reply[c].value, "code") = Str("InvalidParams")
            /\ Get(reply[c].value, "code") # Str("InternalError")

\* C16: a tool call that leaves out a required parameter ends at the handler's
\* guard: from its dispatch until it is collected no facade operation has been
\* invoked for it and no HTTP request has been issued.
C16_ValidationPrecedesFacade ==
    \A c \in Calls :
        LacksRequired(c) =>
            /\ pc[c] = "thrown"
            /\ op[c] = "none"
            /\ requests[c] = <<>>
            /\ response[c] = Pending
            /\ result[c] = Pending

\* get_catalogues called with organizationId and no projectId has ended
\* by throwing, with no request issued.
C16_Witness ==
    \E c \in Calls :
        /\ tool[c] = [name |-> "get_catalogues",
                      arguments |-> Obj([organizationId |-> Str("org1")])]
        /\ reply[c].kind = "throw"
        /\ requests[c] = <<>>

\* The JSON payload of the text item a handler returned.
Payload(c) == reply[c].value.v.content.v[1].v.text

\* The request parameters a handler's failure payload carries.
Echoed(c) ==
    CASE tool[c].name = "get_recent_accessed_projects" ->
            [organizationId |-> Get(tool[c].arguments, "organizationId")]
      [] tool[c].name = "search_projects" -> [searchParams |-> params[c]]
      [] tool[c].name = "get_catalogues" ->
            [organizationId |-> Get(tool[c].arguments, "organizationId"),
             projectId |-> Get(tool[c].arguments, "projectId")]
      [] tool[c].name = "get_api_details" -> [filterParams |-> params[c]]
      [] OTHER -> <<>>

\* C17: when the facade operation of a tool call returns a Failure, the tool
\* call does not throw: it returns a text payload with success false, the
\* Failure's error string, its message and, for the four tools that take
\* parameters, the request parameters.
C17_FailureIsReturnedAsPayload ==
    \A c \in Calls :
        (tool[c] # NoTool /\ Returned(c, FALSE)) =>
            /\ reply[c].kind = "return"
            /\ DOMAIN Payload(c).v = {"success", "error", "message"} \cup DOMAIN Echoed(c)
            /\ Get(Payload(c), "success") = Bool(FALSE)
            /\ Get(Payload(c), "error").t = "string"
            /\ Get(Payload(c), "error") = Get(result[c].value, "error")
            /\ Get(Payload(c), "message") = Get(result[c].value, "message")
            /\ \A k \in DOMAIN Echoed(c) : Get(Payload(c), k) = Echoed(c)[k]

\* search_projects answered 500 has returned the failure payload with its
\* searchParams.
C17_Witness ==
    \E c \in Calls :
        /\ tool[c] = [name |-> "search_projects",
                      arguments |-> Obj([organizationId |-> Str("org1")])]
        /\ response[c].kind = "rejected"
        /\ Returned(c, FALSE)
        /\ reply[c].kind = "return"
        /\ Get(Payload(c), "message") = Str("Failed to search projects: 500")
        /\ Get(Get(Payload(c), "searchParams"), "size") = Num(12)

\* Everything the model keeps for call c.
Slot(c) ==
    <<pc[c], op[c], params[c], requests[c], response[c], result[c], log[c], tool[c],
      reply[c]>>

\* Call c is what its own tool call and its own backend response make it.
OwnDoing(c) ==
    LET passed == Dispatched(tool[c].name, tool[c].arguments)
    IN  IF passed.kind = "throw"
        THEN /\ requests[c] = <<>>
             /\ reply[c] = CallToolCatch(passed)
        ELSE /\ params[c] = passed.value
             /\ requests[c] = << RequestOf(config, Facade(tool[c].name), passed.value) >>
             /\ pc[c] = "awaiting" => result[c] = Pending /\ reply[c] = Pending
             /\ pc[c] = "done" =>
                   /\ result[c] = Complete(Facade(tool[c].name), passed.value, response[c])
                   /\ reply[c] = CallToolCatch(Handled(tool[c].name, tool[c].arguments,
                                                       passed.value, result[c]))

\* C14: with tool calls served concurrently, in every interleaving each call
\* issues its own single request, and its request, result and reply are
\* determined by its own arguments and its own backend response; a step of
\* one call changes nothing of another call, and nothing changes the
\* configuration.
C14_CallsDoNotInterfere ==
    /\ [](\A c \in ConcCalls : tool[c] # NoTool => OwnDoing(c))
    /\ [][\A c1, c2 \in ConcCalls :
            c1 # c2 => (Slot(c1)' = Slot(c1) \/ Slot(c2)' = Slot(c2))]_vars
    /\ [][config' = config]_vars

\* Two tool calls are in flight at once: search_projects has been answered
\* while get_catalogues, dispatched before it, is still awaiting its response.
C14_Witness ==
    \E c1, c2 \in ConcCalls :
        /\ tool[c1].name = "get_catalogues" /\ pc[c1] = "awaiting"
        /\ tool[c2].name = "search_projects" /\ pc[c2] = "done"
        /\ Len(requests[c1]) = 1 /\ Len(requests[c2]) = 1
        /\ requests[c1] # requests[c2]
        /\ reply[c1] = Pending /\ reply[c2].kind = "return"

\* What a pagination field the envelope leaves out defaults to.
PageDefault(c, k) ==
    CASE k \in {"totalElements", "totalPages"} -> Num(0)
      [] k = "size"   -> Requested(c, "size", DefaultSize(op[c]))
      [] k = "number" -> Requested(c, "page", Num(0))
      [] k \in {"first", "last"} -> Bool(TRUE)

\* C18: for both page operations, when the 2xx payload is an object with a
\* `content` array, the page returned holds 0 for a missing totalElements or
\* totalPages, the size or page the caller requested (or its default, 12 or 8
\* and 0) for a missing size or number, and true for a missing first or last;
\* and a page is returned whenever every element of content is an object.
C18_EnvelopeDefaults ==
    \A c \in Calls :
        (/\ Done(c)
         /\ op[c] \in PageOperations
         /\ response[c].kind = "resolved"
         /\ response[c].data.t = "object"
         /\ IsArray(Get(response[c].data, "content"))) =>
            LET envelope == response[c].data
                content  == Get(envelope, "content").v
            IN  /\ (\A i \in 1..Len(content) : content[i].t = "object") => Returned(c, TRUE)
                /\ Returned(c, TRUE) =>
                      \A k \in {"totalElements", "totalPages", "size", "number",
                                 "first", "last"} :
                          Get(envelope, k) = Undefined => Get(Data(c), k) = PageDefault(c, k)

\* searchProjects asked for page 2 of size 5 and answered with a one-element
\* content and nothing else has returned the page with every default.
C18_Witness ==
    \E c \in Calls :
        /\ op[c] = "searchProjects"
        /\ Get(params[c], "size") = Num(5)
        /\ Get(params[c], "page") = Num(2)
        /\ response[c].kind = "resolved"
        /\ response[c].data.t = "object"
        /\ DOMAIN response[c].data.v = {"content"}
        /\ Returned(c, TRUE)
        /\ Len(Get(Data(c), "content").v) = 1
        /\ Pagination(Data(c)) =
              Obj([totalElements |-> Num(0), totalPages |-> Num(0), size |-> Num(5),
                   number |-> Num(2), first |-> Bool(TRUE), last |-> Bool(TRUE)])

\* C19: a request that outlives the 30000 ms timeout ends the operation that
\* issued it in a Failure whose error names the timeout; the operation does
\* not return Success.
C19_TimeoutGivesFailure ==
    \A c \in Calls :
        (Done(c) /\ response[c] = Rejected(TimeoutError(LastRequest(c)))) =>
            /\ LastRequest(c).timeout = 30000
            /\ Returned(c, FALSE)
            /\ Get(result[c].value, "error") = Str("timeout of 30000ms exceeded")

\* C20: every request any facade operation has issued carries the headers
\* Authorization: Bearer <the configured token> and Content-Type:
\* application/json, the requests of searchProjects, getCatalogues and
\* getApiDetails, which pass headers of their own, included.
C20_EveryRequestAuthorized ==
    \A c \in Calls :
        \A i \in 1..Len(requests[c]) :
            LET headers == requests[c][i].headers
            IN  /\ {"authorization", "content-type"} \subseteq DOMAIN headers
                /\ headers["authorization"] = "Bearer " \o config.token
                /\ headers["content-type"] = "application/json"

\* getCatalogues, which passes browser headers and no content type of its
\* own, has issued its request under the token tok-B.
C20_Witness ==
    \E c \in Calls :
        /\ op[c] = "getCatalogues"
        /\ pc[c] = "awaiting"
        /\ config.token = "tok-B"
        /\ Len(requests[c]) = 1
        /\ requests[c][1].headers["origin"] = "https://dev.xapihub.io"
        /\ requests[c][1].headers["authorization"] = "Bearer tok-B"
        /\ requests[c][1].headers["content-type"] = "application/json"

\* The environment leaves XAPIHUB_BASE_URL or XAPIHUB_TOKEN unset or empty.
EnvIncomplete ==
    \E k \in {"XAPIHUB_BASE_URL", "XAPIHUB_TOKEN"} :
        process.env[k] \in {Undefined, Str("")}

\* C21: a client exists only with a non-empty base URL and a non-empty token;
\* when XAPIHUB_BASE_URL or XAPIHUB_TOKEN is missing, the process never runs
\* the server: it exits with a failure, no client is ever constructed and no
\* request is ever issued.
C21_NoClientWithoutConfiguration ==
    /\ config # Undefined =>
          /\ config.baseUrl # "" /\ config.token # ""
          /\ config.baseUrl = process.env.XAPIHUB_BASE_URL.v
          /\ config.token = process.env.XAPIHUB_TOKEN.v
    /\ process.status = "running" <=> config # Undefined
    /\ config = Undefined => \A c \in Calls : requests[c] = <<>> /\ pc[c] = "idle"
    /\ EnvIncomplete =>
          /\ process.status \in {"starting", "exited"}
          /\ config = Undefined
    /\ process.status = "exited" => EnvIncomplete /\ Len(process.stderr) = 1

\* Started with a base URL and an empty token, the process has exited with
\* the token's error message and no client.
C21_Witness ==
    /\ process.env.XAPIHUB_BASE_URL = Str("https://api-dev.xapihub.io")
    /\ process.env.XAPIHUB_TOKEN = Str("")
    /\ process.status = "exited"
    /\ process.stderr = <<"Error: XAPIHUB_TOKEN environment variable is required">>
    /\ config = Undefined

\* C22: when the getCurrentUser call that testConnection delegates to
\* succeeds, testConnection returns success true, data true and the message
\* 'Successfully connected to XAPIHub API', and the test_xapihub_connection
\* tool renders it as exactly {success: true, connected: true, message}.
C22_ConnectionSuccessRendering ==
    \A c \in Calls :
        (/\ Done(c)
         /\ op[c] = "testConnection"
         /\ Get(getCurrentUser(response[c]).value, "success") = Bool(TRUE))
        => /\ result[c] = Return(Obj([success |-> Bool(TRUE), data |-> Bool(TRUE),
                                      message |-> Str("Successfully connected to XAPIHub API")]))
           /\ tool[c] # NoTool =>
                 /\ reply[c].kind = "return"
                 /\ Payload(c) = Obj([success   |-> Bool(TRUE),
                                      connected |-> Bool(TRUE),
                                      message   |-> Str("Successfully connected to XAPIHub API")])

\* test_xapihub_connection answered 2xx with a user object has returned its
\* payload.
C22_Witness ==
    \E c \in Calls :
        /\ Done(c)
        /\ tool[c] # NoTool
        /\ tool[c].name = "test_xapihub_connection"
        /\ response[c].kind = "resolved"
        /\ Get(getCurrentUser(response[c]).value, "success") = Bool(TRUE)
        /\ Get(Payload(c), "connected") = Bool(TRUE)

\* The candidate fields of a list envelope in the order of their priority:
\* the fields specific to the operation's resource, then data, then content.
Candidates(o) ==
    CASE o = "getAccessedOrganizations" ->
            <<"recentAccessedOrganizationResourceList", "organizations", "data", "content">>
      [] o = "getRecentAccessedProjects" ->
            <<"recentAccessedProjectResourceList", "projects", "data", "content">>
      [] o = "getCatalogues" -> <<"catalogues", "data", "content">>

\* The array of the highest-priority candidate of `d` that holds an array.
Preferred(o, d) ==
    LET holding == {i \in 1..Len(Candidates(o)) : IsArray(Get(d, Candidates(o)[i]))}
    IN  Get(d, Candidates(o)[CHOOSE i \in holding : \A j \in holding : i <= j])

\* C23: a list operation answered with an object takes the array of the
\* highest-priority candidate field holding one (resource-specific field,
\* then data, then content), skipping candidates that hold a non-array: its
\* result is the result the same operation gives for that array sent bare.
C23_ListFieldPriority ==
    \A c \in Calls :
        (/\ Done(c)
         /\ op[c] \in ListOperations
         /\ response[c].kind = "resolved"
         /\ response[c].data.t = "object"
         /\ \E i \in 1..Len(Candidates(op[c])) :
                IsArray(Get(response[c].data, Candidates(op[c])[i])))
        => result[c] = Complete(op[c], params[c],
                                Resolved(Preferred(op[c], response[c].data)))

\* C24: a list or page operation answered with an array among whose
\* elements is a null or another non-object returns Success, the record at
\* the position of each such element holding the default in every field.
C24_MappingIsTotal ==
    \A c \in Calls :
        (/\ Done(c)
         /\ op[c] \in ListOperations \cup PageOperations
         /\ response[c].kind = "resolved"
         /\ IsArray(response[c].data)
         /\ \E i \in 1..Len(response[c].data.v) : response[c].data.v[i].t # "object")
        => /\ Returned(c, TRUE)
           /\ LET records == IF op[c] \in ListOperations
                             THEN Data(c).v ELSE Get(Data(c), "content").v
              IN  /\ Len(records) = Len(response[c].data.v)
                  /\ \A i \in 1..Len(records) :
                        response[c].data.v[i].t # "object"
                            => records[i] = Obj(Defaults(op[c]))

\* C25: for both page operations, when the envelope of a 2xx answer holds a
\* number in size and in number, the page returned holds those same values,
\* 0 included, whatever size and page the caller requested.
C25_EnvelopeSizeAndNumberKept ==
    \A c \in Calls :
        (/\ Returned(c, TRUE)
         /\ op[c] \in PageOperations
         /\ response[c].kind = "resolved"
         /\ response[c].data.t = "object"
         /\ IsArray(Get(response[c].data, "content"))
         /\ Get(response[c].data, "size").t = "number"
         /\ Get(response[c].data, "number").t = "number")
        => /\ Get(Data(c), "size") = Get(response[c].data, "size")
           /\ Get(Data(c), "number") = Get(response[c].data, "number")

\* C26: every Result a facade operation returns is a well-formed tagged
\* union: with success true it has a defined data and no error property,
\* with success false it has an error string and no data property.
C26_ResultIsTaggedUnion ==
    \A c \in Calls :
        Done(c) =>
            /\ result[c].kind = "return"
            /\ LET r == result[c].value
               IN  /\ Get(r, "success") \in {Bool(TRUE), Bool(FALSE)}
                   /\ Get(r, "message").t = "string"
                   /\ Get(r, "success") = Bool(TRUE) =>
                         /\ "data" \in DOMAIN r.v
                         /\ ~IsNullish(r.v.data)
                         /\ "error" \notin DOMAIN r.v
                   /\ Get(r, "success") = Bool(FALSE) =>
                         /\ "error" \in DOMAIN r.v
                         /\ r.v.error.t = "string"
                         /\ "data" \notin DOMAIN r.v

\* getAccessedOrganizations answered 500 has returned a Failure: an error
\* string, a message and no data.
C26_Witness ==
    \E c \in Calls :
        /\ Done(c)
        /\ op[c] = "getAccessedOrganizations"
        /\ response[c].kind = "rejected"
        /\ DOMAIN result[c].value.v = {"success", "error", "message"}
        /\ Get(result[c].value, "error") = Str("Request failed with status code 500")

\* C27: once an operation whose request met a transport error (a status
\* outside 2xx, no response, a timeout) has returned, exactly one entry has
\* been logged for it: the 'XAPIHub API Error:' entry with the response's
\* status, status text and body (undefined when there was no response) and
\* the request's URL. No such entry is logged for a 2xx response.
C27_TransportErrorLoggedOnce ==
    \A c \in Calls :
        Done(c) =>
            /\ \A s \in Statuses, b \in ErrorBodies :
                  response[c] = Rejected(StatusError(LastRequest(c), s, b)) =>
                      log[c] = << [label   |-> "XAPIHub API Error:",
                                   payload |-> [status     |-> Num(s),
                                                statusText |-> Str(StatusText(s)),
                                                data       |-> b,
                                                url        |-> LastRequest(c).url]] >>
            /\ response[c] \in {Rejected(NetworkError(LastRequest(c))),
                                Rejected(TimeoutError(LastRequest(c)))} =>
                      log[c] = << [label   |-> "XAPIHub API Error:",
                                   payload |-> [status     |-> Undefined,
                                                statusText |-> Undefined,
                                                data       |-> Undefined,
                                                url        |-> LastRequest(c).url]] >>
            /\ response[c].kind = "rejected" => Len(log[c]) = 1
            /\ response[c].kind = "resolved" =>
                  \A i \in 1..Len(log[c]) : log[c][i].label # "XAPIHub API Error:"

\* getCatalogues answered 404 with a body has returned its Failure, and the
\* entry is in the log.
C27_Witness ==
    \E c \in Calls :
        /\ Returned(c, FALSE)
        /\ op[c] = "getCatalogues"
        /\ response[c].kind = "rejected"
        /\ Len(log[c]) = 1
        /\ log[c][1].label = "XAPIHub API Error:"
        /\ log[c][1].payload.status = Num(404)
        /\ log[c][1].payload.statusText = Str("Not Found")
        /\ log[c][1].payload.data = Obj([message |-> Str("denied")])
        /\ log[c][1].payload.url = LastRequest(c).url

\* C28: every invocation of a facade operation eventually completes with a
\* Result: a request that the backend leaves unanswered is ended by the
\* timeout, so no invocation awaits forever.
C28_InvocationCompletes ==
    \A c \in ConcCalls :
        (pc[c] = "awaiting") ~> (Done(c) /\ result[c].kind = "return")

\* searchProjects has returned a Result after its request timed out.
C28_Witness ==
    \E c \in ConcCalls :
        /\ Done(c)
        /\ op[c] = "searchProjects"
        /\ response[c] = Rejected(TimeoutError(LastRequest(c)))
        /\ result[c].kind = "return"
        /\ Get(result[c].value, "message") = Str("Failed to search projects: Unknown error")

\* C29: from the construction of the client on, no step (an invocation, a
\* tool call, a response, a failure) changes the configuration, and every
\* request issued goes to the base URL and carries the bearer token the
\* client was constructed with.
C29_ConfigurationIsFixed ==
    /\ [](config # Undefined =>
            \A c \in Calls :
                \A i \in 1..Len(requests[c]) :
                    /\ requests[c][i].baseURL = process.env.XAPIHUB_BASE_URL.v
                    /\ requests[c][i].headers["authorization"] =
                          "Bearer " \o process.env.XAPIHUB_TOKEN.v)
    /\ [][config # Undefined => config' = config]_vars

\* The client was constructed from an environment holding tok-B, and a tool
\* call has issued its request to that base URL under that token.
C29_Witness ==
    \E c \in Calls :
        /\ config # Undefined
        /\ tool[c] # NoTool
        /\ pc[c] = "awaiting"
        /\ requests[c][1].baseURL = config.baseUrl
        /\ requests[c][1].headers["authorization"] = "Bearer tok-B"
        /\ process.env.XAPIHUB_TOKEN = Str("tok-B")

\* C30: a tool call naming a tool the server does not have issues no HTTP
\* request and ends by throwing, to the caller of the tools/call handler, an
\* error whose code is MethodNotFound (and so differs from the InternalError
\* code of internal failures).
C30_UnknownToolIsMethodNotFound ==
    \A c \in Calls :
        (tool[c] # NoTool /\ tool[c].name \notin ToolNames) =>
            /\ requests[c] = <<>>
            /\ op[c] = "none"
            /\ reply[c].kind = "throw"
            /\ Get(reply[c].value, "code") = Str("MethodNotFound")
            /\ Get(reply[c].value, "code") # Str("InternalError")

====
